---- MODULE Spec2Model ----
(***************************************************************************)
(* Market-making simulator (src/api/get-data.js): the trading ledger, the  *)
(* quote model, the price sources and the tick cycle of SimulationEngine.  *)
(*                                                                         *)
(* JavaScript Numbers are carried as extended rationals <<n, d>>:          *)
(*   d > 0          the finite value n/d in lowest terms                   *)
(*   <<0, -1>>      negative zero (Math.round of a value in [-0.5, 0))     *)
(*   <<1, 0>>, <<-1, 0>>   +Infinity, -Infinity                            *)
(*   <<0, 0>>       NaN                                                    *)
(* so arithmetic is exact; the special values follow IEEE 754 as the JS    *)
(* operators do (x/0, Infinity*0, comparisons with NaN).                   *)
(***************************************************************************)
EXTENDS Integers, Sequences, FiniteSets, TLC

VARIABLES
    te,      \* a TradingEngine driven through its own interface
    call,    \* the last call made on te and what it returned
    probe,   \* a pure function under test: its arguments and its result;
             \* under SpecLive, the last price the network delivered
    eng,     \* the SimulationEngine instances, by number
    assetConfigs,  \* the shared table ASSET_CONFIGS
    now,     \* Date.now()
    timers,  \* the live setInterval timers
    inflight, \* the start() and tick() calls suspended on a price request
    kv,      \* the key-value store behind the save-data and get-data handlers
    saves    \* the save-data requests, by number, and where each handler is

ledgerVars == <<te, call>>
engineVars == <<eng, assetConfigs, now, timers, inflight>>
storeVars == <<kv, saves>>
vars == <<te, call, probe, eng, assetConfigs, now, timers, inflight, kv, saves>>

----------------------------------------------------------------------------
(* JS Number arithmetic *)

Abs(i) == IF i < 0 THEN -i ELSE i

RECURSIVE Gcd(_, _)
Gcd(a, b) == IF b = 0 THEN a ELSE Gcd(b, a % b)

NaN == <<0, 0>>
PosInf == <<1, 0>>
NegInf == <<-1, 0>>
NegZero == <<0, -1>>
Zero == <<0, 1>>

\* n/d for d # 0, in lowest terms with a positive denominator
Frac(n, d) ==
    LET s == IF d < 0 THEN -1 ELSE 1
        g == Gcd(Abs(n), Abs(d))
    IN  <<(s * n) \div g, Abs(d) \div g>>

Num(i) == <<i, 1>>

IsNaN(x) == x = NaN
IsInf(x) == x[2] = 0 /\ x[1] # 0
IsZero(x) == x[1] = 0 /\ x[2] # 0
IsFinite(x) == x[2] # 0
Den(x) == IF x[2] < 0 THEN 1 ELSE x[2]
SignNeg(x) == x[1] < 0 \/ x = NegZero
ZeroOf(neg) == IF neg THEN NegZero ELSE Zero
InfOf(neg) == IF neg THEN NegInf ELSE PosInf

RNeg(x) ==
    IF IsNaN(x) THEN NaN
    ELSE IF IsZero(x) THEN ZeroOf(~SignNeg(x))
    ELSE <<-x[1], x[2]>>

RAdd(x, y) ==
    IF IsNaN(x) \/ IsNaN(y) THEN NaN
    ELSE IF IsInf(x) THEN (IF IsInf(y) /\ y # x THEN NaN ELSE x)
    ELSE IF IsInf(y) THEN y
    ELSE LET g == Gcd(Den(x), Den(y))
             n == x[1] * (Den(y) \div g) + y[1] * (Den(x) \div g)
             d == (Den(x) \div g) * Den(y)
         IN  IF n = 0 THEN ZeroOf(SignNeg(x) /\ SignNeg(y)) ELSE Frac(n, d)

RSub(x, y) == RAdd(x, RNeg(y))

RMul(x, y) ==
    IF IsNaN(x) \/ IsNaN(y) THEN NaN
    ELSE IF (IsInf(x) /\ IsZero(y)) \/ (IsZero(x) /\ IsInf(y)) THEN NaN
    ELSE LET neg == SignNeg(x) # SignNeg(y)
         IN  IF IsInf(x) \/ IsInf(y) THEN InfOf(neg)
             ELSE IF IsZero(x) \/ IsZero(y) THEN ZeroOf(neg)
             ELSE LET g1 == Gcd(Abs(x[1]), y[2])
                      g2 == Gcd(Abs(y[1]), x[2])
                  IN  <<(x[1] \div g1) * (y[1] \div g2),
                        (x[2] \div g2) * (y[2] \div g1)>>

RDiv(x, y) ==
    IF IsNaN(x) \/ IsNaN(y) THEN NaN
    ELSE IF (IsInf(x) /\ IsInf(y)) \/ (IsZero(x) /\ IsZero(y)) THEN NaN
    ELSE LET neg == SignNeg(x) # SignNeg(y)
         IN  IF IsInf(x) \/ IsZero(y) THEN InfOf(neg)
             ELSE IF IsInf(y) \/ IsZero(x) THEN ZeroOf(neg)
             ELSE RMul(x, <<(IF y[1] < 0 THEN -y[2] ELSE y[2]), Abs(y[1])>>)

\* x < y, x <= y, x > y, x >= y, x === y: every comparison with NaN is false
RLt(x, y) ==
    IF IsNaN(x) \/ IsNaN(y) \/ x = y THEN FALSE
    ELSE IF x = NegInf \/ y = PosInf THEN TRUE
    ELSE IF x = PosInf \/ y = NegInf THEN FALSE
    ELSE x[1] * Den(y) < y[1] * Den(x)

REq(x, y) == ~IsNaN(x) /\ ~IsNaN(y) /\ (x = y \/ (IsZero(x) /\ IsZero(y)))
RLe(x, y) == RLt(x, y) \/ REq(x, y)
RGt(x, y) == RLt(y, x)
RGe(x, y) == RLe(y, x)

MathMax(x, y) ==
    IF IsNaN(x) \/ IsNaN(y) THEN NaN
    ELSE IF RLt(x, y) THEN y
    ELSE IF RLt(y, x) THEN x
    ELSE IF x = NegZero THEN y ELSE x

MathMin(x, y) ==
    IF IsNaN(x) \/ IsNaN(y) THEN NaN
    ELSE IF RLt(x, y) THEN x
    ELSE IF RLt(y, x) THEN y
    ELSE IF x = NegZero THEN x ELSE y

MathAbs(x) == IF IsNaN(x) THEN NaN ELSE IF SignNeg(x) THEN RNeg(x) ELSE x

\* Math.round: the nearest integer, halves toward +Infinity, -0 for [-0.5, 0)
MathRound(x) ==
    IF ~IsFinite(x) \/ IsZero(x) THEN x
    ELSE LET f == (2 * x[1] + x[2]) \div (2 * x[2])
         IN  IF f = 0 THEN ZeroOf(x[1] < 0) ELSE <<f, 1>>

\* JS truthiness of a Number: false for 0, -0 and NaN
Truthy(x) == ~IsNaN(x) /\ ~IsZero(x)

\* null or a value
Null == <<>>
Some(v) == <<v>>

----------------------------------------------------------------------------
(* ASSET_CONFIGS, VOLATILITY_REGIMES *)

Assets == {"BTC", "ETH", "SOL", "APT"}

DefaultAssetConfigs ==
    [BTC |-> [kVol |-> Frac(1, 5), kPos |-> Frac(3, 10), tickSize |-> Num(1),
              maxPosition |-> Frac(1, 2), initPrice |-> Num(95000),
              coinId |-> "bitcoin", decimals |-> 0],
     ETH |-> [kVol |-> Frac(1, 4), kPos |-> Frac(7, 20), tickSize |-> Frac(1, 100),
              maxPosition |-> Num(5), initPrice |-> Num(3300),
              coinId |-> "ethereum", decimals |-> 2],
     SOL |-> [kVol |-> Frac(3, 10), kPos |-> Frac(1, 2), tickSize |-> Frac(1, 1000),
              maxPosition |-> Num(50), initPrice |-> Num(190),
              coinId |-> "solana", decimals |-> 3],
     APT |-> [kVol |-> Frac(1, 2), kPos |-> Frac(7, 10), tickSize |-> Frac(1, 1000),
              maxPosition |-> Num(100), initPrice |-> Frac(19, 2),
              coinId |-> "aptos", decimals |-> 3]]

RegimeFactor == [low |-> Frac(1, 2), medium |-> Num(1), high |-> Num(2)]

----------------------------------------------------------------------------
(* TRADING_CONFIG *)

leverage == 10
orderSizeUSD == 50
collapseThreshold == 100
defaultBalance == 1000
MaxTradesKept == 100
tickIntervalMs == 1500
priceUpdateIntervalMs == 5000
candleDurationMs == 5000
defaultAtrLength == 20
MaxCandlesKept == 50
MaxHistoryKept == 1000
minFetchSpacingMs == 3000

----------------------------------------------------------------------------
(* calculateATR *)

TrueRange(current, previous) ==
    LET highLow == RSub(current.high, current.low)
        highPrevClose == MathAbs(RSub(current.high, previous.close))
        lowPrevClose == MathAbs(RSub(current.low, previous.close))
    IN  MathMax(MathMax(highLow, highPrevClose), lowPrevClose)

RECURSIVE SumSeq(_)
SumSeq(s) == IF s = <<>> THEN Zero ELSE RAdd(SumSeq(SubSeq(s, 1, Len(s) - 1)), s[Len(s)])

\* mutant: the window holds `length` candles, one pair short
Lookback_OnePairShort(candles, length) ==
    IF Len(candles) < length THEN Len(candles) ELSE length

\* lookback = Math.min(candles.length, length + 1)
Lookback(candles, length) ==
    IF Len(candles) < length + 1 THEN Len(candles) ELSE length + 1

calculateATR(candles, length) ==
    IF Len(candles) < 2 THEN Zero
    ELSE LET lookback == Lookback(candles, length)
             trueRanges == [i \in 1 .. (lookback - 1) |->
                               TrueRange(candles[Len(candles) - lookback + i + 1],
                                         candles[Len(candles) - lookback + i])]
         IN  IF Len(trueRanges) = 0 THEN Zero
             ELSE RDiv(SumSeq(trueRanges), Num(Len(trueRanges)))

----------------------------------------------------------------------------
(* roundPrice, calculateQuotes *)

roundPrice(price, config) ==
    IF config.decimals = 0 THEN MathRound(price)
    ELSE RMul(MathRound(RDiv(price, config.tickSize)), config.tickSize)

\* mutant: the spread is k_vol * ATR with no two-tick floor
BaseSpread_NoFloor(atr, config) == RMul(config.kVol, atr)

\* base_spread = max(2 ticks, k_vol * ATR)
BaseSpread(atr, config) ==
    LET minSpread == RMul(config.tickSize, Num(2))
    IN  MathMax(minSpread, RMul(config.kVol, atr))

calculateQuotes(mid, atr, longSize, shortSize, config) ==
    LET baseSpread == BaseSpread(atr, config)
        netPosition == RSub(longSize, shortSize)
        imbalance == RDiv(netPosition, config.maxPosition)
        skew == RMul(RMul(config.kPos, imbalance), baseSpread)
        bidPrice == roundPrice(RSub(RSub(mid, RDiv(baseSpread, Num(2))), skew), config)
        askPrice == roundPrice(RSub(RAdd(mid, RDiv(baseSpread, Num(2))), skew), config)
        actualSpread == RSub(askPrice, bidPrice)
    IN  [bid |-> bidPrice,
         ask |-> askPrice,
         baseSpread |-> baseSpread,
         actualSpread |-> actualSpread,
         skew |-> skew,
         imbalance |-> imbalance]

----------------------------------------------------------------------------
(* TradingEngine *)

NoPosition == [size |-> Zero, avgPrice |-> Zero]

\* mutant: the argument is ignored and the default balance restored
reset_IgnoresArgument(initialBalance) ==
    [balance |-> Num(defaultBalance),
     initialBalance |-> Num(defaultBalance),
     leverage |-> Num(leverage),
     longPosition |-> NoPosition,
     shortPosition |-> NoPosition,
     realizedPnL |-> Zero,
     trades |-> <<>>,
     collapses |-> <<>>]

reset(initialBalance) ==
    [balance |-> initialBalance,
     initialBalance |-> initialBalance,
     leverage |-> Num(leverage),
     longPosition |-> NoPosition,
     shortPosition |-> NoPosition,
     realizedPnL |-> Zero,
     trades |-> <<>>,
     collapses |-> <<>>]

calculateMargin(t, size, price) == RDiv(RMul(size, price), t.leverage)

\* mutant: the notional is not capped by the buying power
calculateOrderSize_FixedNotional(t, price) == RDiv(Num(orderSizeUSD), price)

calculateOrderSize(t, price) ==
    LET buyingPower == RMul(t.balance, t.leverage)
        maxNotional == MathMin(Num(orderSizeUSD), buyingPower)
    IN  RDiv(maxNotional, price)

\* Date.toLocaleTimeString drops the date and the milliseconds
toLocaleTimeString(ms) == (ms \div 1000) % 86400
\* Date.toISOString spells the instant out to the millisecond
toISOString(ms) == ms

\* mutant: the average price is overwritten by the last fill price
AddFill_LastPrice(pos, price, size) ==
    [size |-> RAdd(pos.size, size), avgPrice |-> price]

\* the position after adding a fill of `size` at `price`
AddFill(pos, price, size) ==
    LET newSize == RAdd(pos.size, size)
        newAvgPrice ==
            IF RGt(pos.size, Zero)
            THEN RDiv(RAdd(RMul(pos.avgPrice, pos.size), RMul(price, size)), newSize)
            ELSE price
    IN  [size |-> newSize, avgPrice |-> newAvgPrice]

\* mutant: the margin is checked against the buying power, not the balance
InsufficientMargin_BuyingPower(t, margin) == RGt(margin, RMul(t.balance, t.leverage))

\* margin > this.balance
InsufficientMargin(t, margin) == RGt(margin, t.balance)

\* [te |-> the ledger after the call, ret |-> null or the trade]
\* this.trades.pop() once the list is longer than 100
KeepRecent_DropsNewest(trades) ==
    IF Len(trades) > MaxTradesKept THEN Tail(trades) ELSE trades

KeepRecent(trades) ==
    IF Len(trades) > MaxTradesKept THEN SubSeq(trades, 1, Len(trades) - 1) ELSE trades

executeEntry(t, side, price, size, timestamp) ==
    LET margin == calculateMargin(t, size, price)
    IN  IF InsufficientMargin(t, margin)
        THEN [te |-> t, ret |-> Null]
        ELSE LET trade == [id |-> Len(t.trades) + 1,
                           timestamp |-> toLocaleTimeString(timestamp),
                           isoTimestamp |-> toISOString(timestamp),
                           side |-> side,
                           price |-> price,
                           size |-> size,
                           margin |-> margin]
                 unshifted == <<trade>> \o t.trades
                 t1 == [t EXCEPT !.balance = RSub(t.balance, margin)]
                 t2 == IF side = "LONG"
                       THEN [t1 EXCEPT !.longPosition = AddFill(t.longPosition, price, size)]
                       ELSE [t1 EXCEPT !.shortPosition = AddFill(t.shortPosition, price, size)]
             IN  [te |-> [t2 EXCEPT !.trades = KeepRecent(unshifted)],
                  ret |-> Some(trade)]

shouldCollapse_IgnoresBalance(t) ==
    RGt(t.longPosition.size, Zero) /\ RGt(t.shortPosition.size, Zero)

shouldCollapse(t) ==
    /\ RLt(t.balance, Num(collapseThreshold))
    /\ RGt(t.longPosition.size, Zero)
    /\ RGt(t.shortPosition.size, Zero)

\* mutant: only a negative collapse size is refused
NothingToCollapse_Negative(collapseSize) == RLt(collapseSize, Zero)

\* collapseSize <= 0
NothingToCollapse(collapseSize) == RLe(collapseSize, Zero)

\* mutant: the average price survives a position netted to zero
Netted_KeepsAvgPrice(pos, collapseSize) ==
    [size |-> RSub(pos.size, collapseSize), avgPrice |-> pos.avgPrice]

\* a position shrunk by collapseSize
Netted(pos, collapseSize) ==
    LET newSize == RSub(pos.size, collapseSize)
    IN  [size |-> newSize,
         avgPrice |-> IF RGt(newSize, Zero) THEN pos.avgPrice ELSE Zero]

\* mutant: the margin of the short leg is not returned
CollapseCredit_LongLegOnly(t, collapseSize, pnl) ==
    RAdd(calculateMargin(t, collapseSize, t.longPosition.avgPrice), pnl)

\* mutant: the margins are returned without the realized pnl
CollapseCredit_MarginsOnly(t, collapseSize, pnl) ==
    RAdd(calculateMargin(t, collapseSize, t.longPosition.avgPrice),
         calculateMargin(t, collapseSize, t.shortPosition.avgPrice))

\* what a collapse adds to the balance: both legs' margin and the pnl
CollapseCredit(t, collapseSize, pnl) ==
    LET longMarginReturn == calculateMargin(t, collapseSize, t.longPosition.avgPrice)
        shortMarginReturn == calculateMargin(t, collapseSize, t.shortPosition.avgPrice)
    IN  RAdd(RAdd(longMarginReturn, shortMarginReturn), pnl)

\* [te |-> the ledger after the call, ret |-> null or the collapse record]
executeCollapse(t, timestamp) ==
    LET collapseSize == MathMin(t.longPosition.size, t.shortPosition.size)
    IN  IF NothingToCollapse(collapseSize)
        THEN [te |-> t, ret |-> Null]
        ELSE LET pnl == RMul(RSub(t.shortPosition.avgPrice, t.longPosition.avgPrice),
                             collapseSize)
                 collapse == [id |-> Len(t.collapses) + 1,
                              timestamp |-> toLocaleTimeString(timestamp),
                              isoTimestamp |-> toISOString(timestamp),
                              size |-> collapseSize,
                              pnl |-> pnl]
             IN  [te |-> [t EXCEPT
                            !.longPosition = Netted(t.longPosition, collapseSize),
                            !.shortPosition = Netted(t.shortPosition, collapseSize),
                            !.balance = RAdd(t.balance, CollapseCredit(t, collapseSize, pnl)),
                            !.realizedPnL = RAdd(t.realizedPnL, pnl),
                            !.collapses = <<collapse>> \o t.collapses],
                  ret |-> Some(collapse)]

calculateUnrealizedPnL(t, currentPrice) ==
    LET longPnL == IF RGt(t.longPosition.size, Zero)
                   THEN RMul(t.longPosition.size, RSub(currentPrice, t.longPosition.avgPrice))
                   ELSE Zero
        shortPnL == IF RGt(t.shortPosition.size, Zero)
                    THEN RMul(t.shortPosition.size, RSub(t.shortPosition.avgPrice, currentPrice))
                    ELSE Zero
    IN  RAdd(longPnL, shortPnL)

calculateEquity(t, currentPrice) ==
    LET longMargin == calculateMargin(t, t.longPosition.size, t.longPosition.avgPrice)
        shortMargin == calculateMargin(t, t.shortPosition.size, t.shortPosition.avgPrice)
        unrealizedPnL == calculateUnrealizedPnL(t, currentPrice)
    IN  RAdd(RAdd(RAdd(t.balance, longMargin), shortMargin), unrealizedPnL)

----------------------------------------------------------------------------
(* SeededRNG (Mulberry32).  A 32-bit word is <<h, l>>, two 16-bit halves;  *)
(* the state, a Number that `+=` never wraps, is <<q, h, l>> standing for  *)
(* q*2^32 + h*2^16 + l.                                                    *)

W16 == 65536

RECURSIVE Xor16(_, _, _)
Xor16(a, b, n) ==
    IF n = 0 THEN 0
    ELSE (((a % 2) + (b % 2)) % 2) + 2 * Xor16(a \div 2, b \div 2, n - 1)

RECURSIVE Or16(_, _, _)
Or16(a, b, n) ==
    IF n = 0 THEN 0
    ELSE (IF a % 2 = 1 \/ b % 2 = 1 THEN 1 ELSE 0) + 2 * Or16(a \div 2, b \div 2, n - 1)

RECURSIVE Pow2(_)
Pow2(k) == IF k = 0 THEN 1 ELSE 2 * Pow2(k - 1)

XorW(a, b) == <<Xor16(a[1], b[1], 16), Xor16(a[2], b[2], 16)>>
OrW(a, b) == <<Or16(a[1], b[1], 16), Or16(a[2], b[2], 16)>>
\* a >>> k for 0 < k < 16
ShrW(a, k) == <<a[1] \div Pow2(k), ((a[1] % Pow2(k)) * Pow2(16 - k)) + (a[2] \div Pow2(k))>>
\* (a + b) mod 2^32
AddW(a, b) ==
    LET l == a[2] + b[2]
    IN  <<(a[1] + b[1] + (l \div W16)) % W16, l % W16>>
\* the 32-bit product of two 16-bit halves
Mul16(x, y) ==
    LET p0 == (x % 256) * y
        p1 == (x \div 256) * y
        low == ((p1 % 256) * 256) + p0
    IN  <<(p1 \div 256) + (low \div W16), low % W16>>
\* Math.imul: the low 32 bits of a * b
ImulW(a, b) ==
    LET ll == Mul16(a[2], b[2])
        lh == Mul16(a[2], b[1])
        hl == Mul16(a[1], b[2])
    IN  <<(ll[1] + lh[2] + hl[2]) % W16, ll[2]>>

\* 0x6D2B79F5
Increment == <<27947, 31221>>

NewRNG(seed) == [seed |-> seed, state |-> <<0, seed \div W16, seed % W16>>]

rngReset_KeepsState(rng) == rng

rngReset(rng) == [rng EXCEPT !.state = <<0, rng.seed \div W16, rng.seed % W16>>]

\* this.state += 0x6D2B79F5
Advance(state) ==
    LET l == state[3] + Increment[2]
        h == state[2] + Increment[1] + (l \div W16)
    IN  <<state[1] + (h \div W16), h % W16, l % W16>>

\* t = Math.imul(t ^ (t >>> 15), t | 1)
Mix1(t) == ImulW(XorW(t, ShrW(t, 15)), OrW(t, <<0, 1>>))
\* t ^= t + Math.imul(t ^ (t >>> 7), t | 61)
Mix2(t) == XorW(t, AddW(t, ImulW(XorW(t, ShrW(t, 7)), OrW(t, <<0, 61>>))))
\* (t ^ (t >>> 14)) >>> 0
Mix3(t) == XorW(t, ShrW(t, 14))

\* the 32 output bits of random() for the state already advanced
Mix(state) == Mix3(Mix2(Mix1(<<state[2], state[3]>>)))

\* random(): [rng |-> the generator after the call, bits |-> w], the value
\* returned being w / 2^32
Output(rng) == [rng |-> rng, bits |-> Mix(rng.state)]
random(rng) == Output([rng EXCEPT !.state = Advance(@)])

\* A uniform draw enters arithmetic through its top DrawBits bits.
DrawBits == 2
Uniform(w) == Frac(w[1] \div Pow2(16 - DrawBits), Pow2(DrawBits))
\* w / 2^32 > 1/4 and w / 2^32 < 1/2, on all 32 bits
AboveQuarter(w) == w[1] > 16384 \/ (w[1] = 16384 /\ w[2] > 0)
BelowHalf(w) == w[1] < 32768

\* Box-Muller, sqrt(-2 ln u1) * cos(2 pi u2), tabulated at the midpoints of
\* the four quarters of [0,1) for u1 and for u2 and kept to eighths
BoxMullerRadius == <<Num(2), Frac(11, 8), Num(1), Frac(1, 2)>>
BoxMullerCosine == <<Frac(3, 4), Frac(-3, 4), Frac(-3, 4), Frac(3, 4)>>

\* Math.sqrt(-2 * Math.log(u1)): Infinity for the draw u1 = 0
Radius(u1) ==
    IF u1 = <<0, 0>> THEN PosInf ELSE BoxMullerRadius[(u1[1] \div 16384) + 1]

BoxMuller(u1, d2) ==
    [rng |-> d2.rng,
     value |-> RMul(Radius(u1),
                    BoxMullerCosine[(d2.bits[1] \div 16384) + 1])]
SecondDraw(d1) == BoxMuller(d1.bits, random(d1.rng))

\* randomNormal(mean = 0, stdDev = 1): [rng, value], u1 drawn before u2
randomNormal(rng) == SecondDraw(random(rng))

----------------------------------------------------------------------------
(* Candle aggregation, shared by PriceSimulator and LivePriceFetcher.      *)
(* candleStartTime is 0 for null: both are falsy and both subtract as 0.   *)

NewCandle(price, t) ==
    [open |-> price, high |-> price, low |-> price, close |-> price, timestamp |-> t]

\* mutant: the window is never closed, every sample updates the open candle
WindowElapsed_Never(holder, t) == holder.candleStartTime = 0

\* !this.candleStartTime || now - this.candleStartTime >= candleDurationMs
WindowElapsed(holder, t) ==
    holder.candleStartTime = 0 \/ t - holder.candleStartTime >= candleDurationMs

\* updateCandle(price) run at wall-clock time t on a holder of
\* candles, currentCandle and candleStartTime
updateCandle(holder, price, t) ==
    IF WindowElapsed(holder, t)
    THEN LET pushed == IF holder.currentCandle # Null
                       THEN Append(holder.candles, holder.currentCandle[1])
                       ELSE holder.candles
             kept == IF Len(pushed) > MaxCandlesKept THEN Tail(pushed) ELSE pushed
         IN  [holder EXCEPT !.candles = kept,
                            !.currentCandle = Some(NewCandle(price, t)),
                            !.candleStartTime = t]
    ELSE LET c == holder.currentCandle[1]
         IN  [holder EXCEPT !.currentCandle =
                 Some([c EXCEPT !.high = MathMax(c.high, price),
                                !.low = MathMin(c.low, price),
                                !.close = price])]

----------------------------------------------------------------------------
(* PriceSimulator *)

baseVol == [BTC |-> Frac(3, 5), ETH |-> Frac(4, 5), SOL |-> Num(1), APT |-> Frac(6, 5)]

\* dt = 1.5 / 86400 days, whose square root is 1/240
dt == Frac(1, 57600)
sqrtDt == Frac(1, 240)

\* The simulated price is carried at a resolution of PriceGrid.
PriceGrid == Frac(1, 16)
Stored(x) == RMul(MathRound(RDiv(x, PriceGrid)), PriceGrid)

NewPriceSimulator(asset, config) ==
    [asset |-> asset,
     currentPrice |-> config.initPrice,
     volatilityRegime |-> "medium",
     drift |-> Zero,
     candles |-> <<>>,
     currentCandle |-> Null,
     candleStartTime |-> 0]

simReset(sim, config) ==
    [sim EXCEPT !.currentPrice = config.initPrice,
                !.candles = <<>>,
                !.currentCandle = Null,
                !.candleStartTime = 0]

\* generateTick() at wall-clock time t: [sim, rng], the price being
\* sim.currentPrice
Moved(sim, price, rng, t) ==
    [sim |-> updateCandle([sim EXCEPT !.currentPrice = price], price, t), rng |-> rng]

\* mutant: the price is kept non-negative only
Clamped_AtZero(price, config) == MathMax(price, Zero)

\* Math.max(this.currentPrice, this.config.tickSize)
Clamped(price, config) == MathMax(price, config.tickSize)

GbmStep(sim, z, config, t) ==
    LET regimeFactor == RegimeFactor[sim.volatilityRegime]
        volatility == RMul(baseVol[sim.asset], regimeFactor)
        driftComponent == RMul(RMul(sim.drift, sim.currentPrice), dt)
        randomComponent == RMul(RMul(RMul(volatility, sim.currentPrice), sqrtDt), z.value)
        moved == Stored(RAdd(sim.currentPrice, RAdd(driftComponent, randomComponent)))
    IN  Moved(sim, Clamped(moved, config), z.rng, t)

generateTick(sim, rng, config, t) == GbmStep(sim, randomNormal(rng), config, t)

----------------------------------------------------------------------------
(* LivePriceFetcher *)

NewLivePriceFetcher ==
    [lastPrice |-> Null,
     candles |-> <<>>,
     currentCandle |-> Null,
     candleStartTime |-> 0,
     isLoading |-> FALSE,
     lastFetchTime |-> 0]

liveReset(f) ==
    [f EXCEPT !.lastPrice = Null,
              !.candles = <<>>,
              !.currentCandle = Null,
              !.candleStartTime = 0]

\* fetchPrice up to its first suspension: rate limited, it returns lastPrice
RateLimited(f, t) == t - f.lastFetchTime < minFetchSpacingMs
fetchIssue(f, t) == [f EXCEPT !.isLoading = TRUE, !.lastFetchTime = t]

\* fetchPrice from the arrival of the response, at wall-clock time t.
\* answer is <<price>> for a payload with a truthy usd price, null for an
\* HTTP error, an exception or an empty payload.  [f, price], price being
\* what the call returns.
fetchSettle(f, answer, t) ==
    IF answer # Null
    THEN [f |-> [updateCandle([f EXCEPT !.lastPrice = answer], answer[1], t)
                    EXCEPT !.isLoading = FALSE],
          price |-> answer]
    ELSE [f |-> [f EXCEPT !.isLoading = FALSE], price |-> f.lastPrice]

\* `if (price)` on what fetchPrice returned
PriceAvailable(price) == price # Null /\ Truthy(price[1])

----------------------------------------------------------------------------
(* SimulationEngine.  An engine's config is the entry of the shared table  *)
(* ASSET_CONFIGS for its asset (this.config = ASSET_CONFIGS[asset]), so    *)
(* the operators below take that entry as `config`.  intervalId is 0 for   *)
(* null; `observers` says whether onTick, onTrade and onCollapse are set.  *)

defaultSeed == 12345

NoQuotes ==
    [bid |-> Zero, ask |-> Zero, baseSpread |-> Zero, actualSpread |-> Zero,
     skew |-> Zero, imbalance |-> Zero]

NewSimulationEngine ==
    [rng |-> NewRNG(defaultSeed),
     priceSimulator |-> Null,
     livePriceFetcher |-> NewLivePriceFetcher,
     tradingEngine |-> reset(Num(defaultBalance)),
     mode |-> "simulation",
     asset |-> "BTC",
     isRunning |-> FALSE,
     intervalId |-> 0,
     tickCount |-> 0,
     atrLength |-> defaultAtrLength,
     dataHistory |-> <<>>,
     currentMid |-> Zero,
     currentQuotes |-> NoQuotes,
     currentATR |-> Zero,
     observers |-> FALSE]

setAsset(e, asset, config) ==
    [e EXCEPT !.asset = asset,
              !.priceSimulator = Some(NewPriceSimulator(asset, config)),
              !.livePriceFetcher = liveReset(e.livePriceFetcher)]

setMode(e, mode) == [e EXCEPT !.mode = mode]

setSeed(e, seed) == [e EXCEPT !.rng = NewRNG(seed)]

setATRLength(e, length) ==
    [e EXCEPT !.atrLength = IF length > 50 THEN 50 ELSE IF length < 5 THEN 5 ELSE length]

setVolatilityRegime(e, regime) ==
    IF e.priceSimulator = Null THEN e
    ELSE [e EXCEPT !.priceSimulator = Some([e.priceSimulator[1] EXCEPT !.volatilityRegime = regime])]

setDrift(e, drift) ==
    IF e.priceSimulator = Null THEN e
    ELSE [e EXCEPT !.priceSimulator = Some([e.priceSimulator[1] EXCEPT !.drift = drift])]

\* updateConfig(params) writes through this.config into the shared table entry
updateConfig(config, params) ==
    [config EXCEPT !.kVol = IF params.kVol # Null THEN params.kVol[1] ELSE @,
                   !.kPos = IF params.kPos # Null THEN params.kPos[1] ELSE @,
                   !.tickSize = IF params.tickSize # Null THEN params.tickSize[1] ELSE @,
                   !.maxPosition = IF params.maxPosition # Null THEN params.maxPosition[1] ELSE @]

\* the UI controller's constructor sets the three callbacks
attachObservers(e) == [e EXCEPT !.observers = TRUE]

\* stop(): the engine's side; clearInterval is the caller's timer update
stop(e) == [e EXCEPT !.isRunning = FALSE, !.intervalId = 0]

\* SimulationEngine.reset(initialBalance)
engineReset(e, initialBalance, config) ==
    [stop(e) EXCEPT
        !.tickCount = 0,
        !.dataHistory = <<>>,
        !.currentMid = Zero,
        !.currentATR = Zero,
        !.currentQuotes = NoQuotes,
        !.tradingEngine = reset(initialBalance),
        !.rng = rngReset(e.rng),
        !.priceSimulator = IF e.priceSimulator = Null THEN Null
                           ELSE Some(simReset(e.priceSimulator[1], config)),
        !.livePriceFetcher = liveReset(e.livePriceFetcher)]

\* mutant: the whole order is filled
FillPercentage_Whole(w) == Num(1)

\* fillPercentage = 0.5 + random() * 0.5
FillPercentage(w) == RAdd(Frac(1, 2), RMul(Uniform(w), Frac(1, 2)))

\* the fill of simulateMarketActivity: isBuyOrder hits the ask and opens a
\* SHORT, otherwise the bid is hit and a LONG opens
MarketOrderFill(e, isBuyOrder, d3, timestamp) ==
    LET price == IF isBuyOrder THEN e.currentQuotes.ask ELSE e.currentQuotes.bid
        orderSize == calculateOrderSize(e.tradingEngine, price)
        fillSize == RMul(orderSize, FillPercentage(d3.bits))
    IN  [e EXCEPT !.rng = d3.rng,
                  !.tradingEngine = executeEntry(@, IF isBuyOrder THEN "SHORT" ELSE "LONG",
                                                 price, fillSize, timestamp).te]

MarketOrderSide(e, d2, timestamp) ==
    MarketOrderFill(e, BelowHalf(d2.bits), random(d2.rng), timestamp)

MarketOrderArrives(e, d1, timestamp) ==
    IF AboveQuarter(d1.bits) THEN [e EXCEPT !.rng = d1.rng]
    ELSE MarketOrderSide(e, random(d1.rng), timestamp)

\* three draws at most, in the order arrival, side, fill percentage
simulateMarketActivity(e, timestamp) == MarketOrderArrives(e, random(e.rng), timestamp)

DataPoint(e, timestamp) ==
    [timestamp |-> toISOString(timestamp),
     tick |-> e.tickCount,
     mid |-> e.currentMid,
     bid |-> e.currentQuotes.bid,
     ask |-> e.currentQuotes.ask,
     spread |-> e.currentQuotes.actualSpread,
     atr |-> e.currentATR,
     balance |-> e.tradingEngine.balance,
     equity |-> calculateEquity(e.tradingEngine, e.currentMid),
     unrealizedPnL |-> calculateUnrealizedPnL(e.tradingEngine, e.currentMid),
     realizedPnL |-> e.tradingEngine.realizedPnL,
     longSize |-> e.tradingEngine.longPosition.size,
     shortSize |-> e.tradingEngine.shortPosition.size]

Candles(e) ==
    IF e.mode = "simulation" THEN e.priceSimulator[1].candles ELSE e.livePriceFetcher.candles

\* step 6 of tick(): the DataPoint is stored, the oldest one dropped
TickRecord(e, timestamp) ==
    [e EXCEPT !.dataHistory =
        IF Len(@) + 1 > MaxHistoryKept THEN Tail(Append(@, DataPoint(e, timestamp)))
        ELSE Append(@, DataPoint(e, timestamp))]

\* mutant: the fill at the quotes of the tick before, then the quotes
TickQuote_FillFirst(e, config, timestamp) ==
    TickRecord([simulateMarketActivity(e, timestamp) EXCEPT !.currentQuotes =
                    calculateQuotes(e.currentMid, e.currentATR,
                                    e.tradingEngine.longPosition.size,
                                    e.tradingEngine.shortPosition.size, config)],
               timestamp)

\* steps 4 and 5: quotes, then market activity
TickQuote(e, config, timestamp) ==
    TickRecord(simulateMarketActivity(
                   [e EXCEPT !.currentQuotes =
                       calculateQuotes(e.currentMid, e.currentATR,
                                       e.tradingEngine.longPosition.size,
                                       e.tradingEngine.shortPosition.size, config)],
                   timestamp),
               timestamp)

\* step 3 after executeCollapse returned `col`: a collapse that happened
\* is handed to onCollapse, and the call of a null onCollapse throws
TickCollapsed(e, col, config, timestamp) ==
    IF col.ret # Null /\ ~e.observers THEN [e EXCEPT !.tradingEngine = col.te]
    ELSE TickQuote([e EXCEPT !.tradingEngine = col.te], config, timestamp)

TickCollapse(e, config, timestamp) ==
    TickCollapsed(e,
                  IF shouldCollapse(e.tradingEngine)
                  THEN executeCollapse(e.tradingEngine, timestamp)
                  ELSE [te |-> e.tradingEngine, ret |-> Null],
                  config, timestamp)

\* tick() from step 2 on, the mid being set; `timestamp` is the Date taken
\* when the tick began.  A TypeError (the candles of a null simulator, a
\* null onCollapse called) ends the tick where it is thrown.
TickRest(e, config, timestamp) ==
    IF e.mode = "simulation" /\ e.priceSimulator = Null THEN e
    ELSE TickCollapse([e EXCEPT !.currentATR = calculateATR(Candles(e), e.atrLength)],
                      config, timestamp)

\* `if (price) this.currentMid = price`
WithPrice(e, price) ==
    IF PriceAvailable(price) THEN [e EXCEPT !.currentMid = price[1]] ELSE e

WithTick(e, g) ==
    [e EXCEPT !.priceSimulator = Some(g.sim), !.rng = g.rng,
              !.currentMid = g.sim.currentPrice]

\* step 1 of tick() without a suspension: the simulated price, or what a
\* rate-limited fetchPrice returns; generateTick of a null simulator throws
NewMid(e, config, t) ==
    IF e.mode = "simulation"
    THEN IF e.priceSimulator = Null THEN e
         ELSE WithTick(e, generateTick(e.priceSimulator[1], e.rng, config, t))
    ELSE WithPrice(e, e.livePriceFetcher.lastPrice)

\* tick() resumed with what the awaited fetchPrice returned
TickResume(e, config, price, timestamp) ==
    TickRest(WithPrice(e, price), config, timestamp)

\* tick() called at wall-clock time t, run to its end or to the suspension
\* on a price request: [e, suspended]
tick(e, config, t) ==
    IF ~e.isRunning THEN [e |-> e, suspended |-> FALSE]
    ELSE IF e.mode = "live" /\ ~RateLimited(e.livePriceFetcher, t)
         THEN [e |-> [e EXCEPT !.tickCount = @ + 1,
                               !.livePriceFetcher = fetchIssue(@, t)],
               suspended |-> TRUE]
         ELSE [e |-> TickRest(NewMid([e EXCEPT !.tickCount = @ + 1], config, t), config, t),
               suspended |-> FALSE]

\* start() from the main loop on: setInterval has returned `id`, and the
\* first tick runs immediately
StartLoop(e, config, id, t) == tick([e EXCEPT !.intervalId = id], config, t)

----------------------------------------------------------------------------
(* The engines in the browser: the clock, the interval timers and the      *)
(* suspended async calls.  A timer is [id, eng, due, period]; a suspended  *)
(* call is [eng, kind, timestamp], timestamp being the Date the tick took  *)
(* when it began.                                                          *)

\* the free-standing ledger and its call record, untouched
\* save-data and get-data over @vercel/kv. A handler is a record
\* [pc, body, id, simList]: pc is the await it is suspended at ("set",
\* "get", "setList") or how it ended ("ok", "failed"); simList is its local
\* copy of the index.
MaxSaves == 3
SaveIds == {"a", "b"}
NoSave == [pc |-> "idle", body |-> <<>>, id |-> <<>>, simList |-> <<>>]
\* the key the index is stored under, in the same key space as the records
IndexKey == "simulation-list"
\* records: the values under the ids; list: the array last stored under
\* IndexKey; underIndexKey: whether that key now holds the array ("list")
\* or a simulation record saved with the id 'simulation-list' ("record")
EmptyStore == [records |-> {}, list |-> <<>>, underIndexKey |-> "list"]

StoreIdle ==
    /\ kv = EmptyStore
    /\ saves = [n \in 1 .. MaxSaves |-> NoSave]

\* simulationData.id || `sim-${Date.now()}`
SaveId(body, t) == IF body.id = <<>> THEN <<"sim", t>> ELSE body.id

\* simList.find(s => s.id === id)
Indexed_Never(simList, id) == FALSE

Indexed(simList, id) == \E j \in 1 .. Len(simList) : simList[j].id = id

IndexEntry(h) == [id |-> h.id, asset |-> h.body.asset, timestamp |-> h.body.timestamp]

\* kv.set(id, simulationData)
KvSet(records, id, data) == {x \in records : x.id # id} \cup {[id |-> id, data |-> data]}

NoCall == [op |-> "new", side |-> "", price |-> Zero, size |-> Zero,
           balance |-> Num(defaultBalance), ret |-> Null, n |-> 0]

LedgerIdle ==
    /\ te = reset(Num(defaultBalance))
    /\ call = NoCall

MaxTicks == 3
MaxEngineCalls == 4

\* an engine call: within the budget of calls, recorded in `call`
Called(op) ==
    /\ call.n < MaxEngineCalls
    /\ call' = [NoCall EXCEPT !.op = op, !.n = call.n + 1]
    /\ UNCHANGED <<te, probe, storeVars>>

\* a step of the browser (a timer, a response, the clock)
NoEngineCall == UNCHANGED <<te, call, probe, storeVars>>

EngineIds == {1, 2}
StartTime == 60000
Horizon == 10000
ClockSteps == {2500, 5000}

Config(e) == assetConfigs[e.asset]

EnginesIdle ==
    /\ eng = [i \in EngineIds |-> NewSimulationEngine]
    /\ assetConfigs = DefaultAssetConfigs
    /\ now = StartTime
    /\ timers = {}
    /\ inflight = {}
    /\ StoreIdle

NextTimerId ==
    IF timers = {} THEN 1
    ELSE 1 + (CHOOSE m \in {tm.id : tm \in timers} : \A tm \in timers : tm.id <= m)

\* a call on engine i has run to its end or to its suspension: r is
\* [e, suspended], tmrs the timers and pending the other suspended calls
Continue(i, r, tmrs, pending) ==
    /\ eng' = [eng EXCEPT ![i] = r.e]
    /\ timers' = tmrs
    /\ inflight' = pending \cup
           (IF r.suspended THEN {[eng |-> i, kind |-> "tick", timestamp |-> now]} ELSE {})

Period(e) == IF e.mode = "simulation" THEN tickIntervalMs ELSE priceUpdateIntervalMs

\* start() from `// Main loop` on, for engine i in state e
EnterLoop(i, e, pending) ==
    Continue(i, StartLoop(e, Config(e), NextTimerId, now),
             timers \cup {[id |-> NextTimerId, eng |-> i, due |-> now + Period(e),
                           period |-> Period(e)]},
             pending)

\* engine.start()
CallStart(i) ==
    LET e == [eng[i] EXCEPT !.isRunning = TRUE]
        f == e.livePriceFetcher
    IN  /\ ~eng[i].isRunning
        /\ eng[i].tickCount < MaxTicks
        /\ IF e.mode = "live" /\ ~RateLimited(f, now)
           THEN /\ eng' = [eng EXCEPT ![i] = [e EXCEPT !.livePriceFetcher = fetchIssue(f, now)]]
                /\ inflight' = inflight \cup {[eng |-> i, kind |-> "start", timestamp |-> now]}
                /\ UNCHANGED timers
           ELSE EnterLoop(i, IF e.mode = "live" THEN WithPrice(e, f.lastPrice) ELSE e, inflight)
        /\ UNCHANGED <<assetConfigs, now>>
        /\ Called("start")

\* engine.stop()
CallStop(i) ==
    /\ eng[i].isRunning \/ eng[i].intervalId # 0
    /\ eng' = [eng EXCEPT ![i] = stop(@)]
    /\ timers' = {tm \in timers : tm.id # eng[i].intervalId}
    /\ UNCHANGED <<assetConfigs, now, inflight>>
    /\ Called("stop")

\* engine.reset(initialBalance)
CallEngineReset(i, initialBalance) ==
    /\ eng' = [eng EXCEPT ![i] = engineReset(@, initialBalance, Config(@))]
    /\ timers' = {tm \in timers : tm.id # eng[i].intervalId}
    /\ UNCHANGED <<assetConfigs, now, inflight>>
    /\ call.n < MaxEngineCalls
    /\ call' = [NoCall EXCEPT !.op = "reset", !.n = call.n + 1, !.balance = initialBalance]
    /\ UNCHANGED <<te, probe, storeVars>>

\* The configuration calls come from the control panel, whose inputs are
\* disabled while the engine runs (UIController.setControlsEnabled, and the
\* isRunning checks of UIController.setMode and changeAsset).
CallSetAsset(i, asset) ==
    /\ ~eng[i].isRunning
    /\ eng' = [eng EXCEPT ![i] = setAsset(@, asset, assetConfigs[asset])]
    /\ UNCHANGED <<assetConfigs, now, timers, inflight>>
    /\ Called("setAsset")

CallSetMode(i, mode) ==
    /\ ~eng[i].isRunning
    /\ eng[i].mode # mode
    /\ eng' = [eng EXCEPT ![i] = setMode(@, mode)]
    /\ UNCHANGED <<assetConfigs, now, timers, inflight>>
    /\ Called("setMode")

CallSetSeed(i, seed) ==
    /\ ~eng[i].isRunning
    /\ eng' = [eng EXCEPT ![i] = setSeed(@, seed)]
    /\ UNCHANGED <<assetConfigs, now, timers, inflight>>
    /\ Called("setSeed")

CallUpdateConfig(i, params) ==
    /\ ~eng[i].isRunning
    /\ assetConfigs' = [assetConfigs EXCEPT ![eng[i].asset] = updateConfig(@, params)]
    /\ UNCHANGED <<eng, now, timers, inflight>>
    /\ Called("updateConfig")

\* a setInterval callback: this.tick() on the timer's engine
TimerFires ==
    \E tm \in timers :
        /\ now >= tm.due
        /\ eng[tm.eng].tickCount < MaxTicks
        /\ Continue(tm.eng, tick(eng[tm.eng], Config(eng[tm.eng]), now),
                    (timers \ {tm}) \cup {[tm EXCEPT !.due = now + tm.period]}, inflight)
        /\ UNCHANGED <<assetConfigs, now>>
        /\ NoEngineCall

\* the suspended call req goes on, fetchPrice having returned `price` to
\* engine state e
Resume(req, e, price) ==
    IF req.kind = "tick"
    THEN Continue(req.eng,
                  [e |-> TickResume(e, Config(e), price, req.timestamp), suspended |-> FALSE],
                  timers, inflight \ {req})
    ELSE EnterLoop(req.eng, WithPrice(e, price), inflight \ {req})

Settled(req, s) == Resume(req, [eng[req.eng] EXCEPT !.livePriceFetcher = s.f], s.price)

\* the response to a price request arrives and the suspended call resumes
FetchResponse(answer) ==
    \E req \in inflight :
        /\ Settled(req, fetchSettle(eng[req.eng].livePriceFetcher, answer, now))
        /\ UNCHANGED <<assetConfigs, now>>

FetchReturns(answer) ==
    /\ FetchResponse(answer)
    /\ NoEngineCall

ClockAdvances ==
    \E step \in ClockSteps :
        /\ now + step <= StartTime + Horizon
        /\ now' = now + step
        /\ UNCHANGED <<eng, assetConfigs, timers, inflight>>
        /\ NoEngineCall

----------------------------------------------------------------------------
(* One engine on asset APT with the tick size set to 1, driven through the *)
(* engine's interface in both modes.                                       *)

Seeds == {defaultSeed, 386}
EngineBalances == {Num(defaultBalance), Num(95)}
LivePrices == {Num(9)}
Answers == {Null} \cup {Some(p) : p \in LivePrices}
NoParams == [kVol |-> Null, kPos |-> Null, tickSize |-> Null, maxPosition |-> Null]
ParamSets == {[NoParams EXCEPT !.tickSize = Some(Num(1))],
              [NoParams EXCEPT !.tickSize = Some(Num(1)), !.kPos = Some(Num(1))]}

\* new SimulationEngine(); setAsset('APT'); updateConfig({tickSize: 1}), the
\* engine being bare or owned by a UIController, which sets the callbacks
Init ==
    /\ LedgerIdle
    /\ probe = Null
    /\ assetConfigs = [DefaultAssetConfigs EXCEPT
                          !.APT = updateConfig(@, [NoParams EXCEPT !.tickSize = Some(Num(1))])]
    /\ \E first \in {NewSimulationEngine, attachObservers(NewSimulationEngine)} :
           eng = [i \in EngineIds |->
                     IF i = 1 THEN setAsset(first, "APT", assetConfigs.APT)
                     ELSE NewSimulationEngine]
    /\ now = StartTime
    /\ timers = {}
    /\ inflight = {}
    /\ StoreIdle

Next ==
    \/ CallStart(1)
    \/ CallStop(1)
    \/ \E b \in EngineBalances : CallEngineReset(1, b)
    \/ CallSetAsset(1, "APT")
    \/ \E m \in {"simulation", "live"} : CallSetMode(1, m)
    \/ \E seed \in Seeds : CallSetSeed(1, seed)
    \/ \E params \in ParamSets : CallUpdateConfig(1, params)
    \/ TimerFires
    \/ \E answer \in Answers : FetchReturns(answer)
    \/ ClockAdvances

Spec == Init /\ [][Next]_vars

----------------------------------------------------------------------------
(* The same engine put in live mode, with two prices the network can      *)
(* deliver. The browser runs a due timer callback and time passes; whether *)
(* and when a request is answered is the network's choice, and the calls   *)
(* are the user's.                                                         *)

LiveQuotes == {Num(9), Num(11)}
LiveAnswers == {Null} \cup {Some(p) : p \in LiveQuotes}

\* a response arrives; probe keeps the last price delivered
PriceResponse(answer) ==
    /\ FetchResponse(answer)
    /\ probe' = IF answer = Null THEN probe ELSE answer
    /\ UNCHANGED <<te, call, storeVars>>

LiveInit ==
    /\ LedgerIdle
    /\ probe = Null
    /\ assetConfigs = [DefaultAssetConfigs EXCEPT
                          !.APT = updateConfig(@, [NoParams EXCEPT !.tickSize = Some(Num(1))])]
    /\ \E first \in {NewSimulationEngine, attachObservers(NewSimulationEngine)} :
           eng = [i \in EngineIds |->
                     IF i = 1 THEN setMode(setAsset(first, "APT", assetConfigs.APT), "live")
                     ELSE NewSimulationEngine]
    /\ now = StartTime
    /\ timers = {}
    /\ inflight = {}
    /\ StoreIdle

LiveNext ==
    \/ CallStart(1)
    \/ CallStop(1)
    \/ \E b \in EngineBalances : CallEngineReset(1, b)
    \/ TimerFires
    \/ \E answer \in LiveAnswers : PriceResponse(answer)
    \/ ClockAdvances

SpecLive == LiveInit /\ [][LiveNext]_vars

\* The engine in live mode as time goes by: the clock always advances (weak
\* fairness, up to the horizon); nothing makes the network answer or the
\* user call.
PacedNext ==
    \/ CallStart(1)
    \/ CallStop(1)
    \/ TimerFires
    \/ \E answer \in Answers : FetchReturns(answer)
    \/ ClockAdvances

SpecPaced ==
    LiveInit /\ [][PacedNext]_vars /\ WF_vars(ClockAdvances)

----------------------------------------------------------------------------
(* Two engines prepared alike (same seed, asset, configuration and         *)
(* balance), each started in simulation mode and ticking off its own timer *)
(* at whatever times the clock allows.                                     *)

Prepared(seed, balance, config) ==
    engineReset(setSeed(setAsset(NewSimulationEngine, "APT", config), seed), balance, config)

TwinInit ==
    /\ LedgerIdle
    /\ probe = Null
    /\ assetConfigs = [DefaultAssetConfigs EXCEPT
                          !.APT = updateConfig(@, [NoParams EXCEPT !.tickSize = Some(Num(1))])]
    /\ \E seed \in Seeds, b \in EngineBalances :
           eng = [i \in EngineIds |-> Prepared(seed, b, assetConfigs.APT)]
    /\ now = StartTime
    /\ timers = {}
    /\ inflight = {}
    /\ StoreIdle

TwinNext ==
    \/ \E i \in EngineIds : CallStart(i)
    \/ TimerFires
    \/ ClockAdvances

SpecTwin == TwinInit /\ [][TwinNext]_vars

----------------------------------------------------------------------------
(* The ledger driven through its own interface: reset, executeEntry and    *)
(* executeCollapse called in any order with positive prices and sizes.     *)
(* `call` records the last call made and what it returned.                 *)

MaxCalls == 4

Sides == {"LONG", "SHORT"}
EntryPrices == {Num(1), Num(4)}
EntrySizes == {Num(1), Frac(5, 2)}
Balances == {Num(1), Num(10)}
ProbePrices == {Zero, Num(1), Num(3), Frac(7, 2)}
Dates == {61500}

LedgerInit ==
    /\ LedgerIdle
    /\ EnginesIdle
    /\ probe = Null

\* a call on the ledger, within the budget of calls
LedgerCall ==
    /\ call.n < MaxCalls
    /\ UNCHANGED probe
    /\ UNCHANGED <<engineVars, storeVars>>

CallReset ==
    \E b \in Balances :
        /\ LedgerCall
        /\ te' = reset(b)
        /\ call' = [NoCall EXCEPT !.op = "reset", !.balance = b, !.n = call.n + 1]

CallExecuteEntry ==
    \E side \in Sides, price \in EntryPrices, size \in EntrySizes, d \in Dates :
        LET r == executeEntry(te, side, price, size, d)
        IN  /\ LedgerCall
            /\ te' = r.te
            /\ call' = [NoCall EXCEPT !.op = "executeEntry", !.side = side,
                                      !.price = price, !.size = size,
                                      !.ret = r.ret, !.n = call.n + 1]

CallExecuteCollapse ==
    \E d \in Dates :
        LET r == executeCollapse(te, d)
        IN  /\ LedgerCall
            /\ te' = r.te
            /\ call' = [NoCall EXCEPT !.op = "executeCollapse",
                                      !.ret = r.ret, !.n = call.n + 1]

LedgerNext ==
    \/ CallReset
    \/ CallExecuteEntry
    \/ CallExecuteCollapse

SpecLedger == LedgerInit /\ [][LedgerNext]_vars

----------------------------------------------------------------------------
(* The ledger driven as tick() drives it: entries of the size              *)
(* simulateMarketActivity computes, f * calculateOrderSize(price), at      *)
(* quote prices that include the negative bid of a mid of 0, and           *)
(* collapses.                                                              *)

MaxFills == 4
FillPrices == {Num(-1), Num(1), Num(10)}
FillFractions == {Frac(1, 2), Frac(3, 4)}
FillBalances == {Num(defaultBalance), Num(1)}

FillsInit ==
    /\ \E b \in FillBalances : te = reset(b)
    /\ call = NoCall
    /\ EnginesIdle
    /\ probe = Null

FillCall ==
    /\ call.n < MaxFills
    /\ UNCHANGED probe
    /\ UNCHANGED <<engineVars, storeVars>>

\* executeEntry(side, price, calculateOrderSize(price) * fillPercentage)
FillAttempted(side, price, size) ==
    LET r == executeEntry(te, side, price, size, StartTime)
    IN  /\ FillCall
        /\ te' = r.te
        /\ call' = [NoCall EXCEPT !.op = "executeEntry", !.side = side,
                                  !.price = price, !.size = size,
                                  !.ret = r.ret, !.n = call.n + 1]

FillArrives ==
    \E side \in Sides, price \in FillPrices, f \in FillFractions :
        FillAttempted(side, price, RMul(calculateOrderSize(te, price), f))

CollapseRuns ==
    LET r == executeCollapse(te, StartTime)
    IN  /\ FillCall
        /\ te' = r.te
        /\ call' = [NoCall EXCEPT !.op = "executeCollapse",
                                  !.ret = r.ret, !.n = call.n + 1]

FillsNext ==
    \/ FillArrives
    \/ CollapseRuns

SpecFills == FillsInit /\ [][FillsNext]_vars

----------------------------------------------------------------------------
(* One engine whose ledger already holds positions when it is started:     *)
(* after reset(), a LONG and a SHORT entry are made on engine.tradingEngine *)
(* (or none), so that the first ticks meet a collapse, a fill, or both.     *)

OpenLongs == {Num(2), Num(5)}
TickParams == {[NoParams EXCEPT !.tickSize = Some(Num(1))],
               [NoParams EXCEPT !.tickSize = Some(Num(1)), !.maxPosition = Some(Num(1))]}

\* engine.tradingEngine.executeEntry('LONG', 8, size); executeEntry('SHORT', 10, 2)
Opened(t, size) ==
    executeEntry(executeEntry(t, "LONG", Num(8), size, StartTime).te,
                 "SHORT", Num(10), Num(2), StartTime).te

Funded(e) ==
    {e} \cup {[e EXCEPT !.tradingEngine = Opened(e.tradingEngine, size)] : size \in OpenLongs}

TickInit ==
    /\ LedgerIdle
    /\ probe = Null
    /\ \E params \in TickParams :
           assetConfigs = [DefaultAssetConfigs EXCEPT !.APT = updateConfig(@, params)]
    /\ \E first \in {NewSimulationEngine, attachObservers(NewSimulationEngine)},
          mode \in {"simulation", "live"}, seed \in Seeds, b \in EngineBalances :
           \E e \in Funded(engineReset(setSeed(setMode(setAsset(first, "APT", assetConfigs.APT),
                                                        mode), seed),
                                        b, assetConfigs.APT)) :
               eng = [i \in EngineIds |-> IF i = 1 THEN e ELSE NewSimulationEngine]
    /\ now = StartTime
    /\ timers = {}
    /\ inflight = {}
    /\ StoreIdle

TickNext ==
    \/ CallStart(1)
    \/ TimerFires
    \/ \E answer \in Answers : FetchReturns(answer)
    \/ ClockAdvances

SpecTick == TickInit /\ [][TickNext]_vars

----------------------------------------------------------------------------
(* A ledger filled past the length its trade list is kept at: entries of   *)
(* size 1 at price 1, on alternating sides, and entries too large for the  *)
(* balance, which are rejected. probe keeps every accepted entry, oldest   *)
(* first.                                                                  *)

MaxEntries == 103
TradeSizes == {Num(1), Num(20000)}

TradesInit ==
    /\ LedgerIdle
    /\ EnginesIdle
    /\ probe = <<>>

NextSide == IF Len(probe) % 2 = 0 THEN "LONG" ELSE "SHORT"

Accepted(r) ==
    /\ r.ret # Null
    /\ probe' = Append(probe, r.ret[1])

Rejected(r) ==
    /\ r.ret = Null
    /\ UNCHANGED probe

EntryMade(size, r) ==
    /\ call.n < MaxEntries
    /\ te' = r.te
    /\ call' = [NoCall EXCEPT !.op = "executeEntry", !.side = NextSide,
                              !.price = Num(1), !.size = size,
                              !.ret = r.ret, !.n = call.n + 1]
    /\ UNCHANGED <<engineVars, storeVars>>

EntryAccepted ==
    \E size \in TradeSizes, d \in Dates :
        /\ EntryMade(size, executeEntry(te, NextSide, Num(1), size, d))
        /\ Accepted(executeEntry(te, NextSide, Num(1), size, d))

EntryRejected ==
    \E size \in TradeSizes, d \in Dates :
        /\ EntryMade(size, executeEntry(te, NextSide, Num(1), size, d))
        /\ Rejected(executeEntry(te, NextSide, Num(1), size, d))

TradesNext ==
    \/ EntryAccepted
    \/ EntryRejected

SpecTrades == TradesInit /\ [][TradesNext]_vars

----------------------------------------------------------------------------
(* calculateQuotes applied to a grid of mids, volatilities, inventories    *)
(* and asset configurations: the four shipped ones and ones changed by     *)
(* updateConfig.                                                           *)

QuoteConfigs ==
    {DefaultAssetConfigs[a] : a \in Assets}
    \cup {[DefaultAssetConfigs.BTC EXCEPT !.tickSize = Frac(1, 2), !.kVol = Zero],
          [DefaultAssetConfigs.ETH EXCEPT !.tickSize = Frac(3, 100), !.maxPosition = Frac(1, 3)]}
QuoteMids == {Zero, Frac(1, 2), Frac(201, 200), Frac(19, 2), Num(190)}
QuoteAtrs == {Zero, Frac(1, 100), Frac(25, 2), Num(40)}
QuoteSizes == {Zero, Frac(1, 4), Num(3)}

QuoteInputs ==
    [mid : QuoteMids, atr : QuoteAtrs, longSize : QuoteSizes,
     shortSize : QuoteSizes, config : QuoteConfigs]

QuotesInit ==
    /\ LedgerIdle
    /\ EnginesIdle
    /\ \E i \in QuoteInputs : probe = [fn |-> "calculateQuotes", in |-> i, out |-> Null]

ApplyCalculateQuotes ==
    /\ probe.out = Null
    /\ probe' = [probe EXCEPT !.out =
                     Some(calculateQuotes(probe.in.mid, probe.in.atr, probe.in.longSize,
                                          probe.in.shortSize, probe.in.config))]
    /\ UNCHANGED ledgerVars
    /\ UNCHANGED <<engineVars, storeVars>>

QuotesNext == ApplyCalculateQuotes

SpecQuotes == QuotesInit /\ [][QuotesNext]_vars

----------------------------------------------------------------------------
(* calculateATR applied to candle lists of up to MaxCandles candles *)

MaxCandles == 4
Bar(high, low, close) ==
    [open |-> Num(close), high |-> Num(high), low |-> Num(low), close |-> Num(close),
     timestamp |-> 0]
AtrCandles == {Bar(10, 8, 9), Bar(11, 9, 10), Bar(9, 4, 5)}
AtrLengths == {1, 2, 5}
AtrInputs ==
    [candles : UNION {[1 .. n -> AtrCandles] : n \in 0 .. MaxCandles}, length : AtrLengths]

AtrInit ==
    /\ LedgerIdle
    /\ EnginesIdle
    /\ \E i \in AtrInputs : probe = [fn |-> "calculateATR", in |-> i, out |-> Null]

ApplyCalculateATR ==
    /\ probe.out = Null
    /\ probe' = [probe EXCEPT !.out = Some(calculateATR(probe.in.candles, probe.in.length))]
    /\ UNCHANGED ledgerVars
    /\ UNCHANGED <<engineVars, storeVars>>

AtrNext == ApplyCalculateATR

SpecATR == AtrInit /\ [][AtrNext]_vars

----------------------------------------------------------------------------
(* A SeededRNG driven through its own interface. probe holds the           *)
(* generator, the values returned since it was last seeded or reset        *)
(* (outs), and for each seed the longest run of values seen after an       *)
(* earlier seeding with it (seen).                                         *)

MaxRngCalls == 6
RngSeeds == {defaultSeed, 386, 2147483647}

RngInit ==
    /\ LedgerIdle
    /\ EnginesIdle
    /\ \E seed \in RngSeeds :
           probe = [fn |-> "SeededRNG", rng |-> NewRNG(seed), outs |-> <<>>,
                    seen |-> [s \in RngSeeds |-> <<>>]]

\* a call on the generator, within the budget of calls
RngCall(op) ==
    /\ call.n < MaxRngCalls
    /\ call' = [NoCall EXCEPT !.op = op, !.n = call.n + 1]
    /\ UNCHANGED te
    /\ UNCHANGED <<engineVars, storeVars>>

\* the run of values that ends when the generator is seeded again
RunEnds ==
    [probe.seen EXCEPT ![probe.rng.seed] =
        IF Len(probe.outs) > Len(@) THEN probe.outs ELSE @]

Drawn(d) == [probe EXCEPT !.rng = d.rng, !.outs = Append(@, d.bits)]

CallRandom ==
    /\ RngCall("random")
    /\ probe' = Drawn(random(probe.rng))

CallRngReset ==
    /\ RngCall("reset")
    /\ probe' = [probe EXCEPT !.rng = rngReset(@), !.outs = <<>>, !.seen = RunEnds]

CallRngSetSeed ==
    \E seed \in RngSeeds :
        /\ RngCall("setSeed")
        /\ probe' = [probe EXCEPT !.rng = NewRNG(seed), !.outs = <<>>, !.seen = RunEnds]

RngNext ==
    \/ CallRandom
    \/ CallRngReset
    \/ CallRngSetSeed

SpecRNG == RngInit /\ [][RngNext]_vars

----------------------------------------------------------------------------
(* A PriceSimulator stepped by generateTick at a fixed pace, long enough   *)
(* for its candle history to fill; probe holds the simulator, its          *)
(* generator, the pace and the number of steps made.                       *)

MaxSimTicks == 108
\* the seed whose first draw is 0: seed + 0x6D2B79F5 = 0
ZeroDrawSeed == 0 - 1831565813
SimSeeds == Seeds \cup {ZeroDrawSeed}
SimDrifts == {Zero, Num(576), Num(-115200)}
SimPaces == {2500, 5000}

SimInit ==
    /\ LedgerIdle
    /\ eng = [i \in EngineIds |-> NewSimulationEngine]
    /\ \E params \in {NoParams, [NoParams EXCEPT !.tickSize = Some(Num(1))]} :
           assetConfigs = [DefaultAssetConfigs EXCEPT !.APT = updateConfig(@, params)]
    /\ now = StartTime
    /\ timers = {}
    /\ inflight = {}
    /\ StoreIdle
    /\ \E seed \in SimSeeds, drift \in SimDrifts, regime \in DOMAIN RegimeFactor,
          pace \in SimPaces :
           probe = [sim |-> [NewPriceSimulator("APT", assetConfigs.APT)
                                EXCEPT !.drift = drift, !.volatilityRegime = regime],
                    rng |-> NewRNG(seed),
                    pace |-> pace,
                    ticks |-> 0]

SimStepped(g) == [probe EXCEPT !.sim = g.sim, !.rng = g.rng, !.ticks = @ + 1]

\* generateTick() once, `pace` milliseconds before the next one
SimTick ==
    /\ probe.ticks < MaxSimTicks
    /\ probe' = SimStepped(generateTick(probe.sim, probe.rng, assetConfigs.APT, now))
    /\ now' = now + probe.pace
    /\ UNCHANGED <<ledgerVars, eng, assetConfigs, timers, inflight, storeVars>>

SimNext == SimTick

SpecSim == SimInit /\ [][SimNext]_vars

----------------------------------------------------------------------------
(* Claims about the price simulator and its candles, checked under SpecSim *)

\* low <= open <= high and low <= close <= high
WellFormed(c) ==
    /\ RLe(c.low, c.open) /\ RLe(c.open, c.high)
    /\ RLe(c.low, c.close) /\ RLe(c.close, c.high)

\* the last MaxCandlesKept candles of a history
Newest(candles) ==
    IF Len(candles) > MaxCandlesKept
    THEN SubSeq(candles, Len(candles) - MaxCandlesKept + 1, Len(candles))
    ELSE candles

\* the sample `price` taken at time t on holder h, giving holder g
Sampled(h, g, price, t) ==
    IF h.currentCandle = Null \/ t - h.candleStartTime >= candleDurationMs
    THEN /\ g.currentCandle # Null
         /\ g.currentCandle[1].open = price /\ g.currentCandle[1].high = price
         /\ g.currentCandle[1].low = price /\ g.currentCandle[1].close = price
         /\ g.candles = Newest(IF h.currentCandle = Null THEN h.candles
                               ELSE Append(h.candles, h.currentCandle[1]))
    ELSE /\ g.candles = h.candles
         /\ g.currentCandle[1].open = h.currentCandle[1].open
         /\ g.currentCandle[1].high = MathMax(h.currentCandle[1].high, price)
         /\ g.currentCandle[1].low = MathMin(h.currentCandle[1].low, price)
         /\ g.currentCandle[1].close = price

\* C32: each price sample either opens a candle with open = high = low =
\* close = sample (no open candle, or the 5000 ms window elapsed; the
\* previous open candle is appended to the history first) or updates the
\* open candle with high = max, low = min, close = sample; the history
\* never holds more than 50 candles, the oldest leaving first, and every
\* completed candle has low <= open <= high and low <= close <= high.
C32_CandleAggregation ==
    /\ [](/\ Len(probe.sim.candles) <= MaxCandlesKept
          /\ \A i \in 1 .. Len(probe.sim.candles) : WellFormed(probe.sim.candles[i]))
    /\ [][Sampled(probe.sim, probe'.sim, probe'.sim.currentPrice, now)]_vars

\* the history is full, its oldest candles have left it, and a candle that
\* took two samples spans a range
C32_Witness ==
    /\ Len(probe.sim.candles) = MaxCandlesKept
    /\ probe.sim.candles[1].timestamp > StartTime
    /\ \E i \in 1 .. Len(probe.sim.candles) :
           RLt(probe.sim.candles[i].low, probe.sim.candles[i].high)

\* C33: after every generateTick the current price is at least the asset's
\* tickSize, whatever the drift, the volatility regime and the normal
\* draw, and that price is the sample the candle aggregator received.
C33_PriceAtLeastOneTick ==
    probe.ticks > 0 =>
        /\ RGe(probe.sim.currentPrice, assetConfigs.APT.tickSize)
        /\ probe.sim.currentCandle # Null
        /\ probe.sim.currentCandle[1].close = probe.sim.currentPrice

\* the normal draw was -Infinity (u1 = 0) and the price was held at one tick
C33_Witness ==
    /\ probe.ticks = 1
    /\ probe.rng.seed = ZeroDrawSeed
    /\ probe.sim.drift = Zero
    /\ probe.sim.currentPrice = assetConfigs.APT.tickSize

----------------------------------------------------------------------------
(* The save-data handler serving up to MaxSaves requests, each handler     *)
(* running up to its next await in one step; the store applies one         *)
(* operation at a time.                                                    *)

SaveBodies ==
    [id : {<<>>} \cup {<<i>> : i \in SaveIds}, asset : {"APT"}, timestamp : {1}]

StoreInit ==
    /\ LedgerIdle
    /\ EnginesIdle
    /\ probe = Null

StoreStep == UNCHANGED <<ledgerVars, probe, engineVars>>

\* POST /api/save-data: up to `await kv.set(id, simulationData)`
SaveArrives(n, body) ==
    /\ saves[n].pc = "idle"
    /\ \A m \in 1 .. n - 1 : saves[m].pc # "idle"
    /\ saves' = [saves EXCEPT ![n] = [pc |-> "set", body |-> body,
                                       id |-> SaveId(body, now), simList |-> <<>>]]
    /\ UNCHANGED kv
    /\ StoreStep

\* kv.set(id, simulationData) is applied; up to `await kv.get(...)`
RecordSet(n) ==
    /\ saves[n].pc = "set"
    /\ kv' = [kv EXCEPT !.records = KvSet(@, saves[n].id, saves[n].body),
                        !.underIndexKey = IF saves[n].id = <<IndexKey>> THEN "record" ELSE @]
    /\ saves' = [saves EXCEPT ![n].pc = "get"]
    /\ StoreStep

\* kv.get('simulation-list') answers; up to `await kv.set(...)` or, the id
\* being in the list read, to the 200 response.  A record read from the
\* index key has no find method: the TypeError gives the 500 response.
ListRead(n) ==
    /\ saves[n].pc = "get"
    /\ saves' = [saves EXCEPT ![n] =
                     IF kv.underIndexKey = "record"
                     THEN [saves[n] EXCEPT !.pc = "failed"]
                     ELSE IF Indexed(kv.list, saves[n].id)
                     THEN [saves[n] EXCEPT !.pc = "ok", !.simList = kv.list]
                     ELSE [saves[n] EXCEPT !.pc = "setList",
                               !.simList = Append(kv.list, IndexEntry(saves[n]))]]
    /\ UNCHANGED kv
    /\ StoreStep

\* kv.set('simulation-list', simList) is applied; the 200 response
ListSet(n) ==
    /\ saves[n].pc = "setList"
    /\ kv' = [kv EXCEPT !.list = saves[n].simList,
                        !.underIndexKey = "list",
                        !.records = {x \in @ : x.id # <<IndexKey>>}]
    /\ saves' = [saves EXCEPT ![n].pc = "ok"]
    /\ StoreStep

\* the awaited store operation throws; the 500 response
StoreThrows(n) ==
    /\ saves[n].pc \in {"set", "get", "setList"}
    /\ saves' = [saves EXCEPT ![n].pc = "failed"]
    /\ UNCHANGED kv
    /\ StoreStep

StoreNext ==
    \/ \E n \in 1 .. MaxSaves, body \in SaveBodies : SaveArrives(n, body)
    \/ \E n \in 1 .. MaxSaves : RecordSet(n)
    \/ \E n \in 1 .. MaxSaves : ListRead(n)
    \/ \E n \in 1 .. MaxSaves : ListSet(n)
    \/ \E n \in 1 .. MaxSaves : StoreThrows(n)
    \/ ClockAdvances

SpecStore == StoreInit /\ [][StoreNext]_vars

\* the same handlers when a caller may choose the index key as its id
KeyBodies ==
    [id : {<<>>, <<"a">>, <<IndexKey>>}, asset : {"APT"}, timestamp : {1}]

KeyNext ==
    \/ \E n \in 1 .. MaxSaves, body \in KeyBodies : SaveArrives(n, body)
    \/ \E n \in 1 .. MaxSaves : RecordSet(n)
    \/ \E n \in 1 .. MaxSaves : ListRead(n)
    \/ \E n \in 1 .. MaxSaves : ListSet(n)
    \/ \E n \in 1 .. MaxSaves : StoreThrows(n)
    \/ ClockAdvances

SpecKeys == StoreInit /\ [][KeyNext]_vars

----------------------------------------------------------------------------
(* Claims about the ledger, checked under SpecLedger *)

IsCall(c, op) == c.op = op
Long == te.longPosition
Short == te.shortPosition

\* C1: executeEntry called when size*price/leverage > balance returns null
\* and leaves balance, both positions, realizedPnL, trades and collapses as
\* they were before the call.
C1_MarginRejection ==
    [][(/\ IsCall(call', "executeEntry")
        /\ RGt(RDiv(RMul(call'.size, call'.price), Num(leverage)), te.balance))
       => (call'.ret = Null /\ te' = te)]_vars

\* an entry whose margin exceeded the balance has just been refused
C1_Witness ==
    /\ IsCall(call, "executeEntry")
    /\ call.ret = Null
    /\ RGt(RDiv(RMul(call.size, call.price), Num(leverage)), te.balance)

\* C3: the cash balance is never negative in any state reachable from
\* reset(B), B >= 0, through executeEntry and executeCollapse calls with
\* positive sizes and prices.
C3_BalanceNeverNegative == RGe(te.balance, Zero)

\* C4: executeCollapse with both sizes > 0 nets min(longSize, shortSize):
\* both sizes drop by it, one side ends at 0, a side left above 0 keeps its
\* avgPrice, a side at 0 gets avgPrice 0, and the returned record carries
\* the netted size and pnl = (shortAvg - longAvg) * size from the
\* pre-collapse average prices.
C4_CollapseNetting ==
    [][(/\ IsCall(call', "executeCollapse")
        /\ RGt(Long.size, Zero)
        /\ RGt(Short.size, Zero))
       => LET collapseSize == IF RLt(Long.size, Short.size) THEN Long.size ELSE Short.size
              oneSide(before, after) ==
                  /\ after.size = RSub(before.size, collapseSize)
                  /\ (RGt(after.size, Zero) => after.avgPrice = before.avgPrice)
                  /\ (IsZero(after.size) => after.avgPrice = Zero)
          IN  /\ oneSide(Long, Long')
              /\ oneSide(Short, Short')
              /\ (IsZero(Long'.size) \/ IsZero(Short'.size))
              /\ call'.ret # Null
              /\ call'.ret[1].size = collapseSize
              /\ call'.ret[1].pnl = RMul(RSub(Short.avgPrice, Long.avgPrice), collapseSize)]_vars

\* a collapse has just netted unequal positions: one side is left open
\* at its old average price, the other is closed
C4_Witness ==
    /\ IsCall(call, "executeCollapse")
    /\ call.ret # Null
    /\ RGt(Long.size, Zero)
    /\ IsZero(Short.size)
    /\ RGt(Long.avgPrice, Zero)

\* C5: a successful executeCollapse increases balance by exactly
\* margin(collapseSize, longAvg) + margin(collapseSize, shortAvg) + pnl and
\* realizedPnL by exactly pnl, all from the pre-collapse average prices.
C5_CollapseCredit ==
    [][(IsCall(call', "executeCollapse") /\ call'.ret # Null)
       => LET collapseSize == IF RLt(Long.size, Short.size) THEN Long.size ELSE Short.size
              pnl == RMul(RSub(Short.avgPrice, Long.avgPrice), collapseSize)
              longMargin == RDiv(RMul(collapseSize, Long.avgPrice), Num(leverage))
              shortMargin == RDiv(RMul(collapseSize, Short.avgPrice), Num(leverage))
          IN  /\ te'.balance = RAdd(te.balance, RAdd(RAdd(longMargin, shortMargin), pnl))
              /\ te'.realizedPnL = RAdd(te.realizedPnL, pnl)]_vars

\* a collapse of legs entered at different prices has just realized a loss
C5_Witness ==
    /\ IsCall(call, "executeCollapse")
    /\ call.ret # Null
    /\ RLt(call.ret[1].pnl, Zero)
    /\ te.realizedPnL = call.ret[1].pnl

\* C6: executeCollapse called when min(longSize, shortSize) <= 0 returns
\* null, appends no Collapse record and leaves balance, realizedPnL and both
\* positions unchanged.
C6_NothingToCollapse ==
    [][(/\ IsCall(call', "executeCollapse")
        /\ (RLe(Long.size, Zero) \/ RLe(Short.size, Zero)))
       => (call'.ret = Null /\ te' = te)]_vars

\* a collapse has just been refused while one side held a position
C6_Witness ==
    /\ IsCall(call, "executeCollapse")
    /\ call.ret = Null
    /\ RGt(Long.size, Zero)
    /\ IsZero(Short.size)

C8_EquityAfterReset ==
    IsCall(call, "reset") => \A p \in ProbePrices : calculateEquity(te, p) = call.balance

\* reset(B) with B other than the default balance has just run
C8_Witness ==
    /\ IsCall(call, "reset")
    /\ call.balance # Num(defaultBalance)
    /\ te.balance = call.balance

----------------------------------------------------------------------------
(* Claims about the quote model, checked under SpecQuotes *)

\* C10: for every mid, volatility >= 0, inventory and asset config with
\* tickSize > 0, kVol >= 0 and maxPosition > 0, calculateQuotes returns
\* baseSpread >= 2*tickSize and ask - bid >= 0 after rounding.
C10_QuoteInvariant ==
    probe.out # Null =>
        LET q == probe.out[1]
        IN  /\ RGe(q.baseSpread, RMul(Num(2), probe.in.config.tickSize))
            /\ RGe(RSub(q.ask, q.bid), Zero)
            /\ RGe(q.actualSpread, Zero)

\* quotes computed with a skew, where rounding moved the spread off baseSpread
C10_Witness ==
    /\ probe.out # Null
    /\ ~IsZero(probe.out[1].skew)
    /\ probe.out[1].actualSpread # probe.out[1].baseSpread
    /\ RGt(probe.out[1].baseSpread, RMul(Num(2), probe.in.config.tickSize))

\* C11: for fixed mid, volatility and asset config, changing the inventory
\* shifts the bid and the ask by the same signed amount, so the quoted
\* width ask - bid does not depend on (longSize, shortSize).
C11_SpreadIndependentOfInventory ==
    probe.out # Null =>
        \A longSize \in QuoteSizes, shortSize \in QuoteSizes :
            LET other == calculateQuotes(probe.in.mid, probe.in.atr, longSize, shortSize,
                                         probe.in.config)
            IN  RSub(other.ask, other.bid) = RSub(probe.out[1].ask, probe.out[1].bid)

----------------------------------------------------------------------------
(* Claims about calculateATR, checked under SpecATR *)

\* the largest of a non-empty set of finite Numbers
Largest(S) == CHOOSE x \in S : \A y \in S : RGe(x, y)

\* max(high - low, |high - prevClose|, |low - prevClose|) of the pair of
\* candles ending at index i
PairRange(c, i) ==
    Largest({RSub(c[i].high, c[i].low),
             MathAbs(RSub(c[i].high, c[i - 1].close)),
             MathAbs(RSub(c[i].low, c[i - 1].close))})

\* the sum of the pair ranges of the last k pairs
RECURSIVE LastPairsSum(_, _)
LastPairsSum(c, k) ==
    IF k = 0 THEN Zero
    ELSE RAdd(PairRange(c, Len(c) - k + 1), LastPairsSum(c, k - 1))

\* C12: calculateATR(candles, N) is 0 with fewer than 2 candles, and
\* otherwise the arithmetic mean of the true ranges of exactly the last
\* min(len - 1, N) adjacent candle pairs.
C12_MeanOfLastTrueRanges ==
    probe.out # Null =>
        LET c == probe.in.candles
            k == IF Len(c) - 1 < probe.in.length THEN Len(c) - 1 ELSE probe.in.length
        IN  IF Len(c) < 2 THEN probe.out[1] = Zero
            ELSE probe.out[1] = RDiv(LastPairsSum(c, k), Num(k))

\* an ATR over a window shorter than the list, differing from the mean
\* over all its pairs
C12_Witness ==
    /\ probe.out # Null
    /\ Len(probe.in.candles) > probe.in.length + 1
    /\ probe.out[1] # RDiv(LastPairsSum(probe.in.candles, Len(probe.in.candles) - 1),
                           Num(Len(probe.in.candles) - 1))

----------------------------------------------------------------------------
(* Claims about SeededRNG, checked under SpecRNG *)

\* w / 4294967296 is in [0, 1)
InUnitInterval(w) == w[1] \in 0 .. W16 - 1 /\ w[2] \in 0 .. W16 - 1

\* C23: random() returns a value in [0,1) that depends only on the state
\* before the call: the values returned since setSeed(s) or reset() are
\* those returned after any earlier seeding with s.
C23_SameSeedSameSequence ==
    LET before == probe.seen[probe.rng.seed]
    IN  \A i \in 1 .. Len(probe.outs) :
            /\ InUnitInterval(probe.outs[i])
            /\ i <= Len(before) => probe.outs[i] = before[i]

\* a second run of two different values with the same seed
C23_Witness ==
    /\ call.op = "random"
    /\ Len(probe.outs) >= 2
    /\ Len(probe.seen[probe.rng.seed]) >= 2
    /\ probe.outs[1] # probe.outs[2]

\* C24: the RNG state is a 32-bit wrapping integer: after every random()
\* call the stored state is (previous state + 0x6D2B79F5) mod 2^32, so it
\* stays within the 32-bit range.
C24_StateStaysIn32Bits ==
    probe.rng.state[1] = 0

----------------------------------------------------------------------------
(* Claims about the simulation index, checked under SpecStore *)

\* C25: for every interleaving of concurrent save requests that each
\* respond with success, the simulation index holds an entry for the id of
\* every saved record.
C25_EverySavedRecordIndexed ==
    \A n \in 1 .. MaxSaves : saves[n].pc = "ok" => Indexed(kv.list, saves[n].id)

\* C26: the simulation index never contains two entries with the same id,
\* repeated saves under the same caller-supplied id included.
C26_IndexIdsDistinct ==
    \A i, j \in 1 .. Len(kv.list) : kv.list[i].id = kv.list[j].id => i = j

\* two saves under the same caller-supplied id have both succeeded, one of
\* them having written the index before the other read it
C26_Witness ==
    /\ saves[1].pc = "ok"
    /\ saves[2].pc = "ok"
    /\ saves[1].id = saves[2].id
    /\ saves[1].body.id # <<>>
    /\ saves[1].simList # saves[2].simList \/ Len(kv.list) > 1
    /\ Indexed(kv.list, saves[1].id)

----------------------------------------------------------------------------
(* Claims about the trade list, checked under SpecTrades *)

\* C20: after any sequence of entries the trades list holds at most 100
\* trades, newest first, and they are exactly the most recent accepted
\* entries: the 101st evicts the oldest.
C20_TradesAreMostRecentEntries ==
    LET n == Len(probe)
        k == IF n < 100 THEN n ELSE 100
    IN  /\ Len(te.trades) = k
        /\ \A j \in 1 .. k : te.trades[j] = probe[n - j + 1]

\* more than 100 entries accepted, the first of them gone from the list
C20_Witness ==
    /\ Len(probe) > 100
    /\ call.op = "executeEntry"
    /\ call.ret # Null
    /\ te.trades[1] = call.ret[1]
    /\ \A j \in 1 .. Len(te.trades) : te.trades[j] # probe[1]

\* C21: a trade's id is its sequence number, so no two trades of the list
\* share an id and the ids strictly decrease from the head of the list to
\* its tail, also after more than 100 entries.
C21_TradeIdsStrictlyDecrease ==
    \A i, j \in 1 .. Len(te.trades) : i < j => te.trades[i].id > te.trades[j].id

----------------------------------------------------------------------------
(* Claims about the engine, checked under Spec and SpecTwin *)

\* C2: in every state reachable from reset() through ticks in either mode
\* (live ticks with no price ever available, the mid being 0, included),
\* entries and collapses, longPosition.size >= 0 and shortPosition.size >= 0,
\* and a side whose size is 0 has avgPrice 0.
C2_PositionsWellFormed ==
    LET t == eng[1].tradingEngine
    IN  /\ RGe(t.longPosition.size, Zero)
        /\ RGe(t.shortPosition.size, Zero)
        /\ IsZero(t.longPosition.size) => IsZero(t.longPosition.avgPrice)
        /\ IsZero(t.shortPosition.size) => IsZero(t.shortPosition.avgPrice)

\* C9: two engines with the same seed, asset and configuration, each reset
\* and driven through the same number of simulation-mode ticks, hold
\* identical DataPoint sequences in every field (timestamp and atr
\* included), whatever wall-clock times the ticks ran at.
C9_IdenticalDataPoints ==
    eng[1].tickCount = eng[2].tickCount => eng[1].dataHistory = eng[2].dataHistory

\* the interval timers scheduled for engine i
TimersOf(i) == {tm \in timers : tm.eng = i}

\* C13: once stop() has returned, no later interval ever starts a tick for
\* the engine: in particular a stopped engine has no interval timer left
\* scheduled, stop() having been called during start()'s awaited fetch
\* included.
C13_NoTimerAfterStop ==
    ~eng[1].isRunning => TimersOf(1) = {}

\* C14: start() on a running engine does nothing, so at most one repeating
\* tick schedule exists per engine at any time.
C14_AtMostOneSchedule ==
    Cardinality(TimersOf(1)) <= 1

\* the price requests of engine i that have not returned
RequestsOf(i) == {req \in inflight : req.eng = i}

\* C15: at most one outbound live-price request is in flight at any time,
\* however long a request takes.
C15_AtMostOneRequestInFlight ==
    Cardinality(RequestsOf(1)) <= 1

\* the ticks of engine i that have begun and not yet appended their
\* DataPoint
TicksInProgress(i) == {req \in RequestsOf(i) : req.kind = "tick"}

\* C16: ticks never overlap: no tick begins (increments tickCount and
\* starts its price fetch) while an earlier tick is still between its start
\* and the append of its DataPoint.
C16_TicksNeverOverlap ==
    [][eng'[1].tickCount > eng[1].tickCount => TicksInProgress(1) = {}]_vars

\* C22: every tick that begins while the engine runs appends exactly one
\* DataPoint, so the tick fields of consecutive DataPoints in dataHistory
\* increase by exactly 1, in simulation mode and in live mode.
C22_TickIndexesConsecutive ==
    \A j \in 1 .. Len(eng[1].dataHistory) - 1 :
        eng[1].dataHistory[j + 1].tick = eng[1].dataHistory[j].tick + 1

\* C27: engine instances are independent: updateConfig on one engine
\* changes neither the config another engine uses for the same asset nor
\* the parameters a later setAsset obtains for it, both of which are the
\* asset's entry of ASSET_CONFIGS.
C27_UpdateConfigIsLocal ==
    [][call'.op = "updateConfig" => \A a \in Assets : assetConfigs'[a] = assetConfigs[a]]_vars

\* C28: the engine does not depend on its observers: with onTick, onTrade
\* and onCollapse unset, a tick in which a collapse is executed goes on
\* through its remaining steps and appends its DataPoint.
C28_CollapseTickCompletes ==
    [][Len(eng'[1].tradingEngine.collapses) > Len(eng[1].tradingEngine.collapses)
       => Len(eng'[1].dataHistory) = Len(eng[1].dataHistory) + 1]_vars

\* a step in which a tick of engine 1 went through its collapse check: it
\* appended its DataPoint, or stopped at the call of a null onCollapse
TickRan ==
    \/ Len(eng'[1].dataHistory) = Len(eng[1].dataHistory) + 1
    \/ Len(eng'[1].tradingEngine.collapses) > Len(eng[1].tradingEngine.collapses)

CollapseDue(t) ==
    /\ RLt(t.balance, Num(100))
    /\ RGt(t.longPosition.size, Zero)
    /\ RGt(t.shortPosition.size, Zero)

\* C29: in a tick a collapse is executed if and only if balance < 100 and
\* both position sizes are > 0 (the price update changes neither); at most
\* one collapse is executed per tick, and immediately after it
\* shouldCollapse() is false.
C29_CollapseExactlyWhenDue ==
    [][TickRan =>
        LET t == eng[1].tradingEngine
            executed == Len(eng'[1].tradingEngine.collapses) - Len(t.collapses)
        IN  /\ executed = IF CollapseDue(t) THEN 1 ELSE 0
            /\ executed = 1 => ~CollapseDue(executeCollapse(t, now).te)]_vars

\* a tick has executed a collapse and appended its DataPoint
C29_Witness ==
    /\ Len(eng[1].tradingEngine.collapses) = 1
    /\ Len(eng[1].dataHistory) = 3
    /\ eng[1].tickCount = 3

----------------------------------------------------------------------------
(* Claims about the steps of a tick, checked under SpecTick *)

\* the ledger a tick quotes on: the one it found, after its collapse if
\* one was due
Quoted(t) == IF CollapseDue(t) THEN executeCollapse(t, now).te ELSE t

\* the tick of this step filled an order: the newest trade is its fill
Filled(t, after) == Len(after.trades) = Len(t.trades) + 1

\* the balance and the positions of ledger t after the entry `trade`
Entered(t, trade) == executeEntry(t, trade.side, trade.price, trade.size, now).te

SameHoldings(a, b) ==
    /\ a.balance = b.balance
    /\ a.longPosition = b.longPosition
    /\ a.shortPosition = b.shortPosition

\* C30: within each tick the steps run in the order collapse, quotes,
\* fill, metrics: the DataPoint's bid and ask are computed from the sizes
\* after the tick's collapse and before its fill, the fill is priced at
\* those quotes and made on the ledger the collapse left, and the
\* DataPoint's balance, sizes, unrealizedPnL and equity are the values
\* after the fill.
C30_CollapseQuotesFillMetrics ==
    [][Len(eng'[1].dataHistory) = Len(eng[1].dataHistory) + 1 =>
        LET dp == eng'[1].dataHistory[Len(eng'[1].dataHistory)]
            t == Quoted(eng[1].tradingEngine)
            after == eng'[1].tradingEngine
            q == calculateQuotes(dp.mid, dp.atr, t.longPosition.size,
                                 t.shortPosition.size, Config(eng[1]))
        IN  /\ dp.bid = q.bid
            /\ dp.ask = q.ask
            /\ IF Filled(t, after)
               THEN /\ after.trades[1].price =
                           IF after.trades[1].side = "SHORT" THEN dp.ask ELSE dp.bid
                    /\ SameHoldings(after, Entered(t, after.trades[1]))
               ELSE SameHoldings(after, t)
            /\ dp.balance = after.balance
            /\ dp.longSize = after.longPosition.size
            /\ dp.shortSize = after.shortPosition.size
            /\ dp.unrealizedPnL = calculateUnrealizedPnL(after, dp.mid)
            /\ dp.equity = calculateEquity(after, dp.mid)]_vars

\* the first tick executed a collapse and then filled an order, which
\* moved the quotes the next tick would compute
C30_Witness ==
    /\ Len(eng[1].dataHistory) = 1
    /\ Len(eng[1].tradingEngine.collapses) = 1
    /\ Len(eng[1].tradingEngine.trades) = 3
    /\ LET dp == eng[1].dataHistory[1]
       IN  calculateQuotes(dp.mid, dp.atr, dp.longSize, dp.shortSize, Config(eng[1])).bid
               # dp.bid

\* the margin held on the two positions of ledger t
HeldMargin(t) ==
    RAdd(calculateMargin(t, t.longPosition.size, t.longPosition.avgPrice),
         calculateMargin(t, t.shortPosition.size, t.shortPosition.avgPrice))

\* balance + held margin = initial balance + realizedPnL
Conserved(t) == REq(RAdd(t.balance, HeldMargin(t)), RAdd(t.initialBalance, t.realizedPnL))

\* C34: in every state reached from reset(B) through executeEntry and
\* executeCollapse, balance + margin(long) + margin(short) = B +
\* realizedPnL.
C34_CashPlusMarginConserved == Conserved(te)

\* the step is a call of executeCollapse that collapsed something
Collapsed == call'.n = call.n + 1 /\ call'.op = "executeCollapse" /\ call'.ret # Null

\* C35: a collapse turns unrealized into realized PnL and leaves equity as
\* it was: at every price p, calculateEquity(p) is the same before and
\* after, and calculateUnrealizedPnL(p) is lower by the collapse's pnl.
C35_CollapseKeepsEquity ==
    [][Collapsed =>
        \A p \in ProbePrices :
            /\ REq(calculateEquity(te', p), calculateEquity(te, p))
            /\ REq(calculateUnrealizedPnL(te', p),
                   RSub(calculateUnrealizedPnL(te, p), call'.ret[1].pnl))]_vars

\* a collapse realized a loss and left one side open
C35_Witness ==
    /\ call.op = "executeCollapse"
    /\ call.ret # Null
    /\ RLt(call.ret[1].pnl, Zero)
    /\ RGt(te.longPosition.size, Zero) \/ RGt(te.shortPosition.size, Zero)

\* the step is a fill attempted at a positive quote price
AttemptedAbove0 ==
    call'.n = call.n + 1 /\ call'.op = "executeEntry" /\ RGt(call'.price, Zero)

\* min(orderSizeUSD / leverage, balance)
MarginCap(t) == MathMin(RDiv(Num(orderSizeUSD), t.leverage), t.balance)

\* C36: at a quote price > 0 the margin of the attempted fill is
\* f * min(orderSizeUSD / leverage, balance) with f in [0.5, 1.0): the
\* entry is accepted whenever balance >= 0 and leaves balance >= 0, and it
\* is refused for insufficient margin only when balance < 0.
C36_FillMarginWithinBalance ==
    [][AttemptedAbove0 =>
        /\ \E f \in FillFractions :
               /\ RGe(f, Frac(1, 2)) /\ RLt(f, Num(1))
               /\ REq(calculateMargin(te, call'.size, call'.price), RMul(f, MarginCap(te)))
        /\ RGe(te.balance, Zero) => call'.ret # Null /\ RGe(te'.balance, Zero)
        /\ call'.ret = Null => RLt(te.balance, Zero)]_vars

\* a fill was refused on a negative balance after fills had been accepted
\* on a balance below the notional cap
C36_Witness ==
    /\ call.op = "executeEntry"
    /\ RGt(call.price, Zero)
    /\ call.ret = Null
    /\ RLt(te.balance, Zero)
    /\ te.initialBalance = Num(1)
    /\ Len(te.trades) = 2

\* |longSize - shortSize| <= maxPosition
NetWithin(t, config) ==
    LET netPosition == RSub(t.longPosition.size, t.shortPosition.size)
    IN  RLe(netPosition, config.maxPosition) /\ RLe(RNeg(config.maxPosition), netPosition)

\* C38: the net position never exceeds the asset's maximum position: a
\* tick that finds |longSize - shortSize| <= maxPosition leaves it so, and
\* the imbalance handed to the quote model stays within [-1, 1].
C38_NetPositionWithinMax ==
    [][(/\ Len(eng'[1].dataHistory) = Len(eng[1].dataHistory) + 1
        /\ NetWithin(eng[1].tradingEngine, Config(eng[1])))
       => NetWithin(eng'[1].tradingEngine, Config(eng[1]))]_vars

\* the fractions in [0.5, 1.0) that a draw of DrawBits bits can give
FractionSteps == Pow2(DrawBits + 1)
Fractions == {Frac(n, FractionSteps) : n \in FractionSteps \div 2 .. FractionSteps - 1}

\* the entry `trade` is the fill a market order makes on ledger t at the
\* quotes bid and ask
FillOf(t, trade, bid, ask) ==
    /\ \/ trade.side = "SHORT" /\ trade.price = ask
       \/ trade.side = "LONG" /\ trade.price = bid
    /\ \E f \in Fractions : trade.size = RMul(calculateOrderSize(t, trade.price), f)

\* C31: a tick's simulated fill makes at most one entry: a SHORT at the
\* ask (buy side) or a LONG at the bid (sell side), of size f times
\* calculateOrderSize(that price) with f in [0.5, 1.0); without a fill the
\* step leaves the ledger as it was.
C31_AtMostOneEntryPerTick ==
    [][Len(eng'[1].dataHistory) = Len(eng[1].dataHistory) + 1 =>
        LET dp == eng'[1].dataHistory[Len(eng'[1].dataHistory)]
            t == Quoted(eng[1].tradingEngine)
            after == eng'[1].tradingEngine
        IN  IF after.trades = t.trades
            THEN SameHoldings(after, t) /\ after.realizedPnL = t.realizedPnL
            ELSE /\ Filled(t, after)
                 /\ Tail(after.trades) = t.trades
                 /\ FillOf(t, after.trades[1], dp.bid, dp.ask)
                 /\ SameHoldings(after, Entered(t, after.trades[1]))]_vars

\* of three ticks one filled nothing, one opened a SHORT at its ask and one
\* a LONG at its bid, each for a part of the order size
C31_Witness ==
    /\ Len(eng[1].dataHistory) = 3
    /\ Len(eng[1].tradingEngine.collapses) = 0
    /\ Len(eng[1].tradingEngine.trades) = 2
    /\ \E i, j \in 1 .. 3 :
           /\ eng[1].tradingEngine.trades[1].side = "SHORT"
           /\ eng[1].tradingEngine.trades[1].price = eng[1].dataHistory[i].ask
           /\ eng[1].tradingEngine.trades[2].side = "LONG"
           /\ eng[1].tradingEngine.trades[2].price = eng[1].dataHistory[j].bid

----------------------------------------------------------------------------
(* Claims about the engine in live mode, checked under SpecLive *)

\* the times a tick can begin at
TickTimes == {StartTime + k * 2500 : k \in 0 .. (Horizon \div 2500)}

\* the tick of engine 1 begun at time t is waiting for its price
Waiting(t) == [eng |-> 1, kind |-> "tick", timestamp |-> t] \in inflight

\* C17: a live-mode tick never waits on the network: every started tick
\* eventually goes on to append its DataPoint, even if its fetch never
\* returns.
C17_StartedTickCompletes ==
    \A t \in TickTimes : Waiting(t) ~> ~Waiting(t)

\* C18: in live mode, once a price has been fetched successfully, every
\* later tick whose fetch is unavailable records a mid equal to the most
\* recent successfully fetched price (a tick whose fetch succeeds records
\* the price it fetched, which is then the most recent one).
C18_FallsBackToLastPrice ==
    [][(/\ probe' # Null
        /\ Len(eng'[1].dataHistory) = Len(eng[1].dataHistory) + 1)
       => eng'[1].dataHistory[Len(eng'[1].dataHistory)].mid = probe'[1]]_vars

\* the engine state reset() is to leave, whatever state it is called in
FreshEngine(e, initialBalance) ==
    /\ ~e.isRunning
    /\ e.tickCount = 0
    /\ e.dataHistory = <<>>
    /\ e.tradingEngine.balance = initialBalance
    /\ e.tradingEngine.longPosition = NoPosition
    /\ e.tradingEngine.shortPosition = NoPosition
    /\ e.tradingEngine.realizedPnL = Zero
    /\ e.tradingEngine.trades = <<>>
    /\ e.tradingEngine.collapses = <<>>
    /\ e.rng.state = NewRNG(e.rng.seed).state
    /\ e.priceSimulator # Null =>
           /\ e.priceSimulator[1].currentPrice = Config(e).initPrice
           /\ e.priceSimulator[1].candles = <<>>
           /\ e.priceSimulator[1].currentCandle = Null

\* C19: when SimulationEngine.reset(B) returns, from any reachable state,
\* the engine is not running and has no timer, tickCount is 0, dataHistory
\* is empty, the balance is B, both positions are {size 0, avgPrice 0},
\* realizedPnL is 0, trades and collapses are empty, the RNG state equals
\* its seed and the price simulator is at initPrice with no candles.
C19_ResetRestoresFreshState ==
    [][(call'.op = "reset" /\ call'.n = call.n + 1)
       => /\ FreshEngine(eng'[1], call'.balance)
          /\ {tm \in timers' : tm.eng = 1} = {}]_vars

\* C37: from the return of reset(B) until the next start(), dataHistory
\* stays empty, tickCount stays 0 and the ledger stays as reset(B) left
\* it, also when a live-mode tick was waiting for its price at the moment
\* of the reset and resumes afterwards.
C37_ResetStaysFreshUntilStart ==
    call.op = "reset" =>
        /\ eng[1].dataHistory = <<>>
        /\ eng[1].tickCount = 0
        /\ eng[1].tradingEngine = reset(call.balance)

----------------------------------------------------------------------------
(* Claims about the store when the id is the index key, under SpecKeys *)

\* get(id): the value under the key `id`, if any
Got(id) == {x \in kv.records : x.id = id}

\* C39: records and the index never collide: after a save with any
\* caller-supplied id, 'simulation-list' included, the index key still
\* holds a list of {id, asset, timestamp} entries, and get(id) returns the
\* record saved under that id.
C39_RecordsAndIndexApart ==
    /\ kv.underIndexKey = "list"
    /\ \A n \in 1 .. MaxSaves : saves[n].pc = "ok" => Got(saves[n].id) # {}

====
